---- MODULE Spec2Model ----
(***************************************************************************)
(* State-machine model of the ETM simulation engine.                       *)
(*                                                                         *)
(* Three engines of the repository are modelled over one set of variables: *)
(*   - the modular engine        src/etm/core.py          (SpecCore)       *)
(*   - the nucleon monolith      versions/005             (SpecNucleon)    *)
(*   - the detection monolith    versions/001             (Spec)           *)
(*                                                                         *)
(* Numbers.  Python floats are modelled in fixed point:                    *)
(*   phases (theta, delta_theta, tolerances)  in thousandths of a cycle,   *)
(*   echo values and energies                 in thousandths of a unit.    *)
(* Strings (ancestry, module_tag) are sequences of one-character strings,  *)
(* so that appending a suffix and comparing character by character are     *)
(* computed, not assumed.  unique_id (a uuid prefix in the source) is a    *)
(* fresh natural number drawn from next_id.                                *)
(***************************************************************************)
EXTENDS Integers, Sequences, FiniteSets, TLC

VARIABLES
    tick,                  \* engine.tick
    identities,            \* engine.identities        (sequence of records)
    recruiters,            \* engine.recruiters        (position -> record)
    echo_fields,           \* engine.echo_fields       (position -> rho_local)
    coexistence_registry,  \* engine.coexistence_registry (position -> ids)
    detection_events,      \* engine.detection_events
    conflict_resolutions,  \* engine.conflict_resolutions
    composite_particles,   \* engine.composite_particles (id -> pattern)
    results_history,       \* engine.results_history
    config,                \* engine.config (fixed after construction)
    next_id,               \* source of fresh unique ids (uuid4 in the source)
    pc                     \* "ready", or "raised" once an exception left advance_tick

vars == <<tick, identities, recruiters, echo_fields, coexistence_registry,
          detection_events, conflict_resolutions, composite_particles,
          results_history, config, next_id, pc>>

-----------------------------------------------------------------------------
(* Bounds of the model *)

MaxTicks == 3          \* config.max_ticks of the modelled runs
MaxIdentities == 3     \* identities a scenario places before the run
MaxComposites == 1     \* neutron composites a scenario creates
MaxParticles == 4      \* identities and particles a detection scenario places
MaxModuleTicks == 2    \* ticks a detection scenario runs
MaxSide == 3            \* longest side of the lattices whose neighbours are listed
MaxCells == 6           \* most cells of the lattices echo inheritance is stepped on
MaxAncestry == 5        \* longest ancestry compared by calculate_ancestry_match
SizeX == 3             \* lattice_size[0]
SizeY == 2             \* lattice_size[1]
SizeZ == 1             \* lattice_size[2]

-----------------------------------------------------------------------------
(* Fixed-point scales and small helpers *)

PhaseScale == 1000     \* the value 1.0 of a phase, in thousandths
Milli == 1000          \* the value 1.0 of an echo value or an energy

Abs(n) == IF n < 0 THEN 0 - n ELSE n
Min2(a, b) == IF a <= b THEN a ELSE b
Max2(a, b) == IF a >= b THEN a ELSE b

\* float division a / b and multiplication by a decimal, rounded towards
\* minus infinity on the fixed-point grid
FloorDiv(a, b) == a \div b

RECURSIVE SumSeq(_)
SumSeq(s) == IF s = <<>> THEN 0 ELSE Head(s) + SumSeq(Tail(s))

\* integer part of the square root, by bisection: lo*lo <= n < hi*hi
RECURSIVE ISqrtBetween(_, _, _)
ISqrtBetween(n, lo, hi) ==
    IF hi - lo <= 1 THEN lo
    ELSE LET mid == (lo + hi) \div 2
         IN  IF mid * mid <= n THEN ISqrtBetween(n, mid, hi)
                               ELSE ISqrtBetween(n, lo, mid)

\* 46340 is the largest root whose square fits the 32-bit integers of the checker
ISqrt(n) == ISqrtBetween(n, 0, Min2(n + 1, 46340))

Range(s) == {s[i] : i \in 1..Len(s)}

NoPos == <<>>          \* position None
NoId == 0              \* None for an id-valued field
NoMethod == "none"     \* conflict_resolution_applied None

LatticeShape == <<SizeX, SizeY, SizeZ>>

Lattice == {<<x, y, z>> : x \in 0..(SizeX - 1), y \in 0..(SizeY - 1),
                          z \in 0..(SizeZ - 1)}

\* the order in which _initialize_echo_fields inserts the cells (x, y, z loops)
CellIndex(p) == (p[1] * SizeY + p[2]) * SizeZ + p[3] + 1
CellAt(k) == <<(k - 1) \div (SizeY * SizeZ),
               ((k - 1) \div SizeZ) % SizeY,
               (k - 1) % SizeZ>>
CellOrder == [k \in 1..(SizeX * SizeY * SizeZ) |-> CellAt(k)]

Center == <<SizeX \div 2, SizeY \div 2, SizeZ \div 2>>

\* 0 <= nx < lattice_shape[0] and 0 <= ny < lattice_shape[1] and ...
InShape(shape, p) ==
    /\ p # NoPos
    /\ 0 <= p[1] /\ p[1] < shape[1]
    /\ 0 <= p[2] /\ p[2] < shape[2]
    /\ 0 <= p[3] /\ p[3] < shape[3]

InLattice(p) == InShape(LatticeShape, p)

-----------------------------------------------------------------------------
(* Identity, Recruiter *)

Identity(id, tag, anc, th, dth, pos) ==
    [ unique_id |-> id,
      module_tag |-> tag,
      ancestry |-> anc,
      theta |-> th,
      delta_theta |-> dth,
      tick_memory |-> 0,
      position |-> pos,
      return_status |-> "pending",
      mutation_history |-> 0,           \* length of the list
      is_mutated |-> FALSE,
      coexisting_with |-> <<>>,
      conflict_resolution_applied |-> NoMethod,
      fundamental_particle |-> "none",  \* kind of the timing pattern
      core_timing_rate |-> 0,           \* of the pattern, in thousandths
      energy_content |-> 0,             \* of a photon pattern
      particle_module |-> "none",       \* ParticleModule of the 001 engine:
      master_phase |-> 0,               \*   its fields are kept on the identity
      master_delta_theta |-> 0,
      velocity |-> <<>>,
      context |-> "none",
      energy_level |-> "ground",
      triggers_detection |-> FALSE,
      parent_composite_id |-> NoId,
      is_antiparticle |-> FALSE,
      antiparticle_of |-> NoId,
      creation_tick |-> 0,
      is_decay_product |-> FALSE ]

Recruiter(th, anc, dth) ==
    [ theta_recruiter |-> th,
      ancestry_recruiter |-> anc,
      delta_theta |-> dth,
      returned_identities |-> <<>> ]

\* variant for mutation analysis: the phase is advanced without the wrap-around
IdentityUpdatePhaseNoWrap(i) ==
    [i EXCEPT !.theta = i.theta + i.delta_theta,
              !.tick_memory = i.tick_memory + 1]

\* Identity.update_phase
IdentityUpdatePhase(i) ==
    [i EXCEPT !.theta = (i.theta + i.delta_theta) % PhaseScale,
              !.tick_memory = i.tick_memory + 1]

RecruiterUpdatePhase(r) ==
    [r EXCEPT !.theta_recruiter = (r.theta_recruiter + r.delta_theta) % PhaseScale]

AddReturnedIdentity(r, i) ==
    IF i.unique_id \in Range(r.returned_identities)
    THEN r
    ELSE [r EXCEPT !.returned_identities = Append(@, i.unique_id)]

-----------------------------------------------------------------------------
(* Configuration defaults (ETMConfig), in fixed point *)

PhaseTolerance == 110          \* phase_tolerance = 0.11
RhoMin == 25000                \* rho_min = 25.0
DecayFactor == 950             \* decay_factor = 0.95
InheritanceAlpha == 100        \* inheritance_alpha = 0.10
EchoHybridLocalWeight == 600   \* echo_hybrid_local_weight = 0.6
EchoHybridNeighborWeight == 400 \* echo_hybrid_neighbor_weight = 0.4
Epsilon == 10                  \* epsilon = 0.01
SmoothingThreshold == 2        \* smoothing_threshold
SmoothingTick == 3             \* smoothing_tick
KineticScaleFactor == 1000     \* kinetic_scale_factor = 1000.0 (a plain factor)
PotentialCoefficient == 3723   \* potential_coefficient = 0.003723, in millionths
StabilityScaleFactor == 2630   \* stability_scale_factor = 2.63
CoulombConstant == 13600       \* coulomb_constant = 13.6
Reinforcement == 1000          \* add_reinforcement(1.0)

-----------------------------------------------------------------------------
(* Python dict with insertion order: a sequence of [key, val] entries *)

\* a list with its k-th item replaced
SeqPut(s, k, val) == SubSeq(s, 1, k - 1) \o <<val>> \o SubSeq(s, k + 1, Len(s))

DictKeys(d) == [k \in 1..Len(d) |-> d[k].key]
DictHas(d, key) == \E k \in 1..Len(d) : d[k].key = key
DictIndex(d, key) == CHOOSE k \in 1..Len(d) : d[k].key = key
DictGet(d, key) == d[DictIndex(d, key)].val
DictPut(d, key, val) ==
    IF DictHas(d, key)
    THEN SeqPut(d, DictIndex(d, key), [key |-> key, val |-> val])
    ELSE Append(d, [key |-> key, val |-> val])
DictDel(d, key) == SelectSeq(d, LAMBDA e : e.key # key)

\* list.remove(x): the first occurrence goes
RECURSIVE ListRemove(_, _)
ListRemove(s, x) ==
    IF s = <<>> THEN <<>>
    ELSE IF Head(s) = x THEN Tail(s)
    ELSE <<Head(s)>> \o ListRemove(Tail(s), x)

\* a function (Python dict whose order is never observed) with a key set or reset
FunPut(f, key, val) == (key :> val) @@ f
FunDel(f, key) == [x \in (DOMAIN f) \ {key} |-> f[x]]

-----------------------------------------------------------------------------
(* Lattice connectivity *)

Directions6 == << <<-1,0,0>>, <<1,0,0>>, <<0,-1,0>>, <<0,1,0>>, <<0,0,-1>>, <<0,0,1>> >>
EdgesXY == << <<-1,-1,0>>, <<-1,1,0>>, <<1,-1,0>>, <<1,1,0>> >>
EdgesRest == << <<-1,0,-1>>, <<-1,0,1>>, <<1,0,-1>>, <<1,0,1>>,
                <<0,-1,-1>>, <<0,-1,1>>, <<0,1,-1>>, <<0,1,1>> >>

\* variant for mutation analysis: the offset list is not cut to the connectivity
NeighborOffsetsUncut(connectivity) ==
    (IF connectivity >= 6 THEN Directions6 ELSE <<>>)
    \o (IF connectivity >= 8 THEN EdgesXY ELSE <<>>)
    \o (IF connectivity >= 12 THEN EdgesRest ELSE <<>>)

NeighborOffsets(connectivity) ==
    LET all == (IF connectivity >= 6 THEN Directions6 ELSE <<>>)
               \o (IF connectivity >= 8 THEN EdgesXY ELSE <<>>)
               \o (IF connectivity >= 12 THEN EdgesRest ELSE <<>>)
    IN  SubSeq(all, 1, Min2(connectivity, Len(all)))   \* neighbors[:connectivity]

\* get_neighbors of an engine whose lattice_shape is shape
GetNeighborsIn(shape, connectivity, p) ==
    LET offs == NeighborOffsets(connectivity)
        abs == [k \in 1..Len(offs) |->
                  <<p[1] + offs[k][1], p[2] + offs[k][2], p[3] + offs[k][3]>>]
    IN  SelectSeq(abs, LAMBDA q : InShape(shape, q))

GetNeighbors(connectivity, p) == GetNeighborsIn(LatticeShape, connectivity, p)

-----------------------------------------------------------------------------
(* Operations shared by the engines *)

\* register_coexistence: the registry after the call
RegistryRegister(reg, position, id) ==
    LET cur == IF DictHas(reg, position) THEN DictGet(reg, position) ELSE <<>>
    IN  DictPut(reg, position,
                IF id \in Range(cur) THEN cur ELSE Append(cur, id))

\* register_coexistence: the identity after the call, reg being the registry
\* after the call
IdentityRegister(reg, position, i) ==
    LET others == SelectSeq(DictGet(reg, position), LAMBDA x : x # i.unique_id)
    IN  [i EXCEPT !.coexisting_with = others,
                  !.return_status = IF Len(others) > 0 THEN "coexisting" ELSE @]

PhaseDiff(theta_identity, theta_recruiter) ==
    LET d == Abs(theta_identity - theta_recruiter) % PhaseScale
    IN  Min2(d, PhaseScale - d)

CalculatePhaseMatch(theta_identity, theta_recruiter) ==
    PhaseDiff(theta_identity, theta_recruiter) <= PhaseTolerance

RhoHybrid(cfg, ef, position) ==
    LET neighbors == GetNeighbors(cfg.connectivity, position)
        rho_neigh == IF neighbors # <<>>
                     THEN FloorDiv(SumSeq([k \in 1..Len(neighbors) |-> ef[neighbors[k]]]),
                                   Len(neighbors))
                     ELSE 0
    IN  FloorDiv(EchoHybridLocalWeight * ef[position]
                 + EchoHybridNeighborWeight * rho_neigh, Milli)

CalculateEchoMatch(cfg, ef, position) == RhoHybrid(cfg, ef, position) >= RhoMin

AdvancePhases(ids) == [k \in 1..Len(ids) |-> IdentityUpdatePhase(ids[k])]

AdvanceRecruiters(recs) == [p \in DOMAIN recs |-> RecruiterUpdatePhase(recs[p])]

\* variant for mutation analysis: the value is divided by the factor
ApplyEchoGrowth(ef) == [p \in DOMAIN ef |-> FloorDiv(ef[p] * Milli, DecayFactor)]

ApplyEchoDecay(ef) == [p \in DOMAIN ef |-> FloorDiv(ef[p] * DecayFactor, Milli)]

ApplyEchoInheritance(cfg, ef) ==
    IF InheritanceAlpha <= 0 THEN ef
    ELSE [p \in DOMAIN ef |->
            LET neighbors == GetNeighbors(cfg.connectivity, p)
            IN  IF neighbors # <<>>
                THEN ef[p] + FloorDiv(InheritanceAlpha
                        * FloorDiv(SumSeq([k \in 1..Len(neighbors) |-> ef[neighbors[k]]]),
                                   Len(neighbors)), Milli)
                ELSE ef[p]]

-----------------------------------------------------------------------------
(* Energy of an identity (Identity.calculate_particle_energy, calibrated) *)

MinDistance == 100             \* max(distance, 0.1)
StabilityProbeField == 100000  \* calculate_stability_score(100.0)

\* ParticleTimingPattern.calculate_stability_score
CalculateStabilityScore(core_timing_rate, echo_field_strength) ==
    FloorDiv(core_timing_rate * 800, Milli)
    + FloorDiv(Min2(FloorDiv(echo_field_strength * Milli, 100 * Milli), Milli) * 200, Milli)

CalculateParticleEnergy(i, nuclear_position, ef) ==
    IF i.position = NoPos \/ i.fundamental_particle = "none" THEN 0
    ELSE LET kinetic == i.delta_theta * KineticScaleFactor   \* thousandths times a factor
             potential == IF i.position \in DOMAIN ef
                          THEN 0 - FloorDiv(ef[i.position] * PotentialCoefficient,
                                            Milli * Milli)
                          ELSE 0
             d2 == (i.position[1] - nuclear_position[1]) * (i.position[1] - nuclear_position[1])
                 + (i.position[2] - nuclear_position[2]) * (i.position[2] - nuclear_position[2])
                 + (i.position[3] - nuclear_position[3]) * (i.position[3] - nuclear_position[3])
             distance == ISqrt(d2 * Milli * Milli)
             radius == 0 - FloorDiv(CoulombConstant * Milli, Max2(distance, MinDistance))
             stability == FloorDiv(CalculateStabilityScore(i.core_timing_rate,
                                                           StabilityProbeField)
                                   * StabilityScaleFactor, Milli)
         IN  kinetic + potential + radius + stability

TotalEnergy(ids, ef) ==
    SumSeq([k \in 1..Len(ids) |-> CalculateParticleEnergy(ids[k], Center, ef)])

\* PhotonTimingPattern.set_photon_energy: core_timing_rate = 1.0 + energy / 13.6
PhotonTimingRate(energy_ev) == Milli + FloorDiv(energy_ev * Milli, 13600)

-----------------------------------------------------------------------------
(* Return eligibility and reformation, engine of src/etm/core.py *)

\* variant for mutation analysis: the echo criterion is ignored
ReturnAllowedWithoutEcho(phase_match, ancestry_match, echo_match) ==
    phase_match /\ ancestry_match

ReturnAllowed(phase_match, ancestry_match, echo_match) ==
    phase_match /\ ancestry_match /\ echo_match

HasRecruiter(recs, i) == i.position # NoPos /\ i.position \in DOMAIN recs

\* variant for mutation analysis: an identity without a recruiter is let through
EvaluateReturnEligibilityLenient(cfg, recs, ef, i) ==
    IF ~HasRecruiter(recs, i)
    THEN [return_allowed |-> TRUE, evaluation |-> [reason |-> "no_recruiter"]]
    ELSE LET recruiter == recs[i.position]
             phase_match == CalculatePhaseMatch(i.theta, recruiter.theta_recruiter)
             ancestry_match == (i.ancestry = recruiter.ancestry_recruiter)
             echo_match == CalculateEchoMatch(cfg, ef, i.position)
         IN  [return_allowed |-> ReturnAllowed(phase_match, ancestry_match, echo_match),
              evaluation |-> [phase_match |-> phase_match,
                              ancestry_match |-> ancestry_match,
                              echo_match |-> echo_match,
                              rho_hybrid |-> RhoHybrid(cfg, ef, i.position),
                              phase_diff |-> PhaseDiff(i.theta, recruiter.theta_recruiter)]]

EvaluateReturnEligibility(cfg, recs, ef, i) ==
    IF ~HasRecruiter(recs, i)
    THEN [return_allowed |-> FALSE, evaluation |-> [reason |-> "no_recruiter"]]
    ELSE LET recruiter == recs[i.position]
             phase_match == CalculatePhaseMatch(i.theta, recruiter.theta_recruiter)
             ancestry_match == (i.ancestry = recruiter.ancestry_recruiter)
             echo_match == CalculateEchoMatch(cfg, ef, i.position)
         IN  [return_allowed |-> ReturnAllowed(phase_match, ancestry_match, echo_match),
              evaluation |-> [phase_match |-> phase_match,
                              ancestry_match |-> ancestry_match,
                              echo_match |-> echo_match,
                              rho_hybrid |-> RhoHybrid(cfg, ef, i.position),
                              phase_diff |-> PhaseDiff(i.theta, recruiter.theta_recruiter)]]

\* the status execute_identity_reformation gives the identity
ReformedStatus(ids, reg, i) == "complete"

\* the engine's identities, recruiters and echo fields, as one value
Engine(ids, recs, ef) == [identities |-> ids, recruiters |-> recs, echo_fields |-> ef]

\* execute_identity_reformation on the k-th identity
ExecuteIdentityReformation(e, reg, k) ==
    LET i == e.identities[k]
    IN  IF i.position \in DOMAIN e.recruiters
        THEN LET recruiter == e.recruiters[i.position]
                 reformed == [i EXCEPT !.theta = recruiter.theta_recruiter,
                                       !.ancestry = recruiter.ancestry_recruiter,
                                       !.return_status = ReformedStatus(e.identities, reg, i)]
             IN  Engine(SeqPut(e.identities, k, reformed),
                        FunPut(e.recruiters, i.position, AddReturnedIdentity(recruiter, i)),
                        FunPut(e.echo_fields, i.position,
                               e.echo_fields[i.position] + Reinforcement))
        ELSE e

\* the loop over return_results of advance_tick, from the k-th result on
RECURSIVE ReformFrom(_, _, _, _)
ReformFrom(e, reg, results, k) ==
    IF k > Len(results) THEN e
    ELSE ReformFrom(IF results[k].return_allowed
                    THEN ExecuteIdentityReformation(e, reg, k)
                    ELSE e,
                    reg, results, k + 1)

-----------------------------------------------------------------------------
(* Annihilation (process_detection_events of src/etm/core.py) *)

\* the keys of position_map, in the order of their first identity
RECURSIVE PositionOrder(_)
PositionOrder(ids) ==
    IF ids = <<>> THEN <<>>
    ELSE LET rest == PositionOrder(SubSeq(ids, 1, Len(ids) - 1))
             p == ids[Len(ids)].position
         IN  IF p = NoPos \/ p \in Range(rest) THEN rest ELSE Append(rest, p)

IdentitiesAt(ids, p) == SelectSeq(ids, LAMBDA i : i.position = p)

\* the pairs (i, j), i < j, of a list of n elements in the order of the two loops
PairRank(i, j, n) == (i - 1) * n - ((i - 1) * i) \div 2 + (j - i)
PairsOf(n) ==
    [r \in 1..((n * (n - 1)) \div 2) |->
        CHOOSE pr \in (1..n) \X (1..n) : pr[1] < pr[2] /\ PairRank(pr[1], pr[2], n) = r]

IsAnnihilationPair(a, b) ==
    \/ (a.is_antiparticle /\ a.antiparticle_of = b.unique_id)
    \/ (b.is_antiparticle /\ b.antiparticle_of = a.unique_id)

\* the pairs the scan annihilates at one position, in scan order
AnnihilationsAt(ids, p) ==
    LET here == IdentitiesAt(ids, p)
        pairs == PairsOf(Len(here))
        all == [r \in 1..Len(pairs) |->
                   [a |-> here[pairs[r][1]], b |-> here[pairs[r][2]], position |-> p]]
    IN  SelectSeq(all, LAMBDA x : IsAnnihilationPair(x.a, x.b))

RECURSIVE AnnihilationsFrom(_, _, _)
AnnihilationsFrom(ids, order, k) ==
    IF k > Len(order) THEN <<>>
    ELSE AnnihilationsAt(ids, order[k]) \o AnnihilationsFrom(ids, order, k + 1)

Annihilations(ids) == AnnihilationsFrom(ids, PositionOrder(ids), 1)

\* variant for mutation analysis: only the first identity's energy is released
ReleasedEnergyOfFirst(x, ef) == CalculateParticleEnergy(x.a, Center, ef)

\* total_energy = energy_a + energy_b
ReleasedEnergy(x, ef) ==
    CalculateParticleEnergy(x.a, Center, ef) + CalculateParticleEnergy(x.b, Center, ef)

\* ParticleFactory.create_photon(total_energy) placed on an Identity
PhotonIdentity(id, total_energy, position) ==
    [Identity(id, <<"P","H","O","T","O","N">>, <<"p","h","o","t","o","n">>, 0,
              PhotonTimingRate(total_energy), position)
        EXCEPT !.fundamental_particle = "photon",
               !.core_timing_rate = PhotonTimingRate(total_energy),
               !.energy_content = total_energy]

AnnihilationEvent(x, t, ef, photon) ==
    [event_type |-> "particle_collision",
     position |-> x.position,
     tick |-> t,
     triggering_particle |-> x.a.unique_id,
     affected_identities |-> <<x.b.unique_id>>,
     resolution_method |-> "exclusion",
     energy_released |-> ReleasedEnergy(x, ef),
     photon_id |-> photon.unique_id,
     photon_energy |-> photon.energy_content]

\* variant for mutation analysis: the record carries the tick before
AnnihilationResolutionLate(x, t, ef) ==
    [tick |-> t - 1, position |-> x.position, method |-> "annihilation",
     energy_released |-> ReleasedEnergy(x, ef)]

AnnihilationResolution(x, t, ef) ==
    [tick |-> t, position |-> x.position, method |-> "annihilation",
     energy_released |-> ReleasedEnergy(x, ef)]

\* process_detection_events: identities, events, resolutions and id source after it
ProcessAnnihilations(ids, ef, t, events, resolutions, nid) ==
    LET found == Annihilations(ids)
        photons == [k \in 1..Len(found) |->
                       PhotonIdentity(nid + k - 1, ReleasedEnergy(found[k], ef),
                                      found[k].position)]
        gone == {found[k].a.unique_id : k \in 1..Len(found)}
                \cup {found[k].b.unique_id : k \in 1..Len(found)}
    IN  [identities |-> SelectSeq(ids \o photons, LAMBDA i : i.unique_id \notin gone),
         detection_events |-> events \o
            [k \in 1..Len(found) |-> AnnihilationEvent(found[k], t, ef, photons[k])],
         conflict_resolutions |-> resolutions \o
            [k \in 1..Len(found) |-> AnnihilationResolution(found[k], t, ef)],
         next_id |-> nid + Len(found)]

-----------------------------------------------------------------------------
(* record_tick_results *)

IdentitySummary(i) ==
    [unique_id |-> i.unique_id, module_tag |-> i.module_tag, ancestry |-> i.ancestry,
     theta |-> i.theta, position |-> i.position, return_status |-> i.return_status,
     tick_memory |-> i.tick_memory, is_mutated |-> i.is_mutated,
     is_decay_product |-> i.is_decay_product]

ReturnSummary(ids, results) ==
    [k \in 1..Len(results) |->
        [identity_id |-> ids[k].unique_id,
         return_allowed |-> results[k].return_allowed,
         evaluation |-> results[k].evaluation]]

\* the tick_data of the modular engine; the registry entry of tick_data holds
\* references to the live lists and is not part of the value recorded here
TickData(t, ids, summary, events, resolutions, composites, before, after) ==
    [tick |-> t,
     identities |-> [k \in 1..Len(ids) |-> IdentitySummary(ids[k])],
     return_results |-> summary,
     detection_events |-> events,
     conflict_resolutions |-> resolutions,
     composite_particles |-> composites,
     energy_before |-> before,
     energy_after |-> after,
     energy_released_total |->
        SumSeq([k \in 1..Len(events) |-> events[k].energy_released]),
     photon_energy_total |->
        SumSeq([k \in 1..Len(events) |-> events[k].photon_energy])]

-----------------------------------------------------------------------------
(* The modular engine, src/etm/core.py: scenarios and advance_tick *)

Origin == <<0, 0, 0>>
Far == <<SizeX - 1, 0, 0>>

\* the cells a scenario gives a recruiter, and the recruiter it gives them
RecruiterCells == {Center, Origin}
ScenarioRecruiter == Recruiter(250, <<"A","B","C">>, 50)

\* the echo a scenario seeds: strong at the centre, none elsewhere
ScenarioEcho == [p \in Lattice |-> IF p = Center THEN 80 * Milli ELSE 0]

\* (theta, delta_theta, ancestry) of the plain identities a scenario places
Profiles ==
    [match    |-> [theta |-> 240, delta_theta |-> 50,  ancestry |-> <<"A","B","C">>],
     phase    |-> [theta |-> 950, delta_theta |-> 100, ancestry |-> <<"A","B","C">>],
     ancestry |-> [theta |-> 240, delta_theta |-> 50,  ancestry |-> <<"A","B","D">>]]

\* where a scenario places them
Placements ==
    {<<"match", Center>>, <<"phase", Center>>, <<"ancestry", Center>>,
     <<"match", Origin>>, <<"match", Far>>}

ElectronTimingRate == 700     \* ElectronTimingPattern.core_timing_rate = 0.7

ConfigBetaDecayLifetime == 900   \* ETMConfig.beta_decay_lifetime_ticks
TrialBetaDecayLifetime == 20     \* beta_decay_validation_trial: "very short for testing"

ConfigDefaults ==
    [connectivity |-> 8,
     lattice_size |-> LatticeShape,
     max_ticks |-> MaxTicks,
     inheritance_alpha |-> InheritanceAlpha,
     beta_decay_lifetime_ticks |-> ConfigBetaDecayLifetime,
     enable_detection_events |-> TRUE,
     enable_passive_coexistence |-> TRUE,
     default_conflict_resolution |-> "symbolic_mutation",
     enable_nucleon_internal_structure |-> FALSE,
     enable_beta_decay |-> FALSE,
     detection_triggers_mutation |-> TRUE,
     ancestry_required |-> TRUE,
     smoothing_enabled |-> FALSE]

InitCore ==
    /\ tick = 0
    /\ identities = <<>>
    /\ recruiters = [p \in RecruiterCells |-> ScenarioRecruiter]
    /\ echo_fields = ScenarioEcho
    /\ coexistence_registry = <<>>
    /\ detection_events = <<>>
    /\ conflict_resolutions = <<>>
    /\ composite_particles = <<>>
    /\ results_history = <<>>
    /\ config \in {[ConfigDefaults EXCEPT !.enable_detection_events = d] : d \in BOOLEAN}
    /\ next_id = 1
    /\ pc = "ready"

\* identities.append(identity); register_coexistence(identity.position, identity)
PlaceIdentity(i) ==
    /\ tick = 0
    /\ Len(identities) < MaxIdentities
    /\ LET reg == RegistryRegister(coexistence_registry, i.position, i.unique_id)
       IN  /\ coexistence_registry' = reg
           /\ identities' = Append(identities, IdentityRegister(reg, i.position, i))
    /\ next_id' = next_id + 1
    /\ UNCHANGED <<tick, recruiters, echo_fields, detection_events,
                   conflict_resolutions, composite_particles, results_history, config, pc>>

AddIdentity ==
    \E pl \in Placements :
        PlaceIdentity(Identity(next_id, <<"I">>, Profiles[pl[1]].ancestry,
                               Profiles[pl[1]].theta, Profiles[pl[1]].delta_theta, pl[2]))

AddElectron ==
    \E pos \in RecruiterCells :
        PlaceIdentity([Identity(next_id, <<"E">>, <<"e","-">>, 0, 50, pos)
                          EXCEPT !.fundamental_particle = "electron",
                                 !.core_timing_rate = ElectronTimingRate])

\* a positron linked to an electron already placed
AddPositron ==
    \E k \in 1..Len(identities), flag \in BOOLEAN :
        /\ identities[k].fundamental_particle = "electron"
        /\ ~identities[k].is_antiparticle
        /\ \E pos \in {identities[k].position, Center} :
             PlaceIdentity([Identity(next_id, <<"P">>, <<"e","+">>, 500, 50, pos)
                               EXCEPT !.fundamental_particle = "electron",
                                      !.core_timing_rate = ElectronTimingRate,
                                      !.is_antiparticle = flag,
                                      !.antiparticle_of = identities[k].unique_id])

\* identities.append(identity) alone, for an identity built without a position
AddUnplaced ==
    /\ tick = 0
    /\ Len(identities) < MaxIdentities
    /\ identities' = Append(identities,
                            Identity(next_id, <<"I">>, Profiles["match"].ancestry,
                                     Profiles["match"].theta,
                                     Profiles["match"].delta_theta, NoPos))
    /\ next_id' = next_id + 1
    /\ UNCHANGED <<tick, recruiters, echo_fields, coexistence_registry, detection_events,
                   conflict_resolutions, composite_particles, results_history, config, pc>>

\* advance_tick up to and including the reformation loop
CoreAfterPhases ==
    Engine(AdvancePhases(identities), AdvanceRecruiters(recruiters),
           ApplyEchoDecay(echo_fields))

\* variant for mutation analysis: each identity is reformed as soon as it is
\* found eligible, before the next one is evaluated
RECURSIVE EvaluateAndReformFrom(_, _, _)
EvaluateAndReformFrom(e, results, k) ==
    IF k > Len(e.identities) THEN results
    ELSE LET r == EvaluateReturnEligibility(config, e.recruiters, e.echo_fields,
                                            e.identities[k])
         IN  EvaluateAndReformFrom(IF r.return_allowed
                                   THEN ExecuteIdentityReformation(e, coexistence_registry, k)
                                   ELSE e,
                                   Append(results, r), k + 1)

CoreReturnResultsInterleaved == EvaluateAndReformFrom(CoreAfterPhases, <<>>, 1)

CoreReturnResults ==
    LET e == CoreAfterPhases
    IN  [k \in 1..Len(e.identities) |->
            EvaluateReturnEligibility(config, e.recruiters, e.echo_fields, e.identities[k])]

CoreAfterReformation ==
    ReformFrom(CoreAfterPhases, coexistence_registry, CoreReturnResults, 1)

\* ... and the detection step
CoreAfterDetection ==
    LET e == CoreAfterReformation
    IN  IF config.enable_detection_events
        THEN ProcessAnnihilations(e.identities, e.echo_fields, tick + 1,
                                  detection_events, conflict_resolutions, next_id)
        ELSE [identities |-> e.identities, detection_events |-> detection_events,
              conflict_resolutions |-> conflict_resolutions, next_id |-> next_id]

AdvanceTickCore ==
    /\ tick < MaxTicks
    /\ LET phased == CoreAfterPhases
           reformed == CoreAfterReformation
           detected == CoreAfterDetection
           inherited == ApplyEchoInheritance(config, reformed.echo_fields)
       IN  /\ tick' = tick + 1
           /\ identities' = detected.identities
           /\ recruiters' = reformed.recruiters
           /\ echo_fields' = inherited
           /\ next_id' = detected.next_id
           /\ results_history' = Append(results_history,
                TickData(tick + 1, detected.identities,
                         ReturnSummary(phased.identities, CoreReturnResults),
                         detected.detection_events, detected.conflict_resolutions,
                         Len(composite_particles),
                         TotalEnergy(phased.identities, phased.echo_fields),
                         TotalEnergy(detected.identities, inherited)))
           /\ detection_events' = <<>>
           /\ conflict_resolutions' = <<>>
    /\ UNCHANGED <<coexistence_registry, composite_particles, config, pc>>

NextCore == AddIdentity \/ AddUnplaced \/ AddElectron \/ AddPositron \/ AdvanceTickCore

SpecCore == InitCore /\ [][NextCore]_vars

-----------------------------------------------------------------------------
(* The modular engine: run_simulation *)

\* In this specification pc is the position of the caller: idle, or inside
\* run_simulation (with the tick at which it was called), or returned from it
\* (with the results it returned).
Idle == [at |-> "idle", called_at |-> 0, results |-> <<>>]

InitRun ==
    /\ tick = 0
    /\ identities = <<>>
    /\ recruiters = [p \in RecruiterCells |-> ScenarioRecruiter]
    /\ echo_fields = ScenarioEcho
    /\ coexistence_registry = <<>>
    /\ detection_events = <<>>
    /\ conflict_resolutions = <<>>
    /\ composite_particles = <<>>
    /\ results_history = <<>>
    /\ config \in {[ConfigDefaults EXCEPT !.max_ticks = n] : n \in 0..MaxTicks}
    /\ next_id = 1
    /\ pc = Idle

\* the scenario is set up before the run
SetUpElectron == pc = Idle /\ AddElectron

SetUpPositron == pc = Idle /\ AddPositron

\* advance_tick called by the scenario itself, as test_integration does
ManualTick == pc = Idle /\ AdvanceTickCore

CallRunSimulation ==
    /\ pc = Idle
    /\ pc' = [at |-> "running", called_at |-> tick, results |-> <<>>]
    /\ UNCHANGED <<tick, identities, recruiters, echo_fields, coexistence_registry,
                   detection_events, conflict_resolutions, composite_particles,
                   results_history, config, next_id>>

\* variant for mutation analysis: the loop runs while tick <= max_ticks
LoopConditionInclusive(t, max_ticks) == t <= max_ticks

\* while self.tick < self.config.max_ticks
LoopCondition(t, max_ticks) == t < max_ticks

\* one iteration of the loop
RunIteration ==
    /\ pc.at = "running"
    /\ LoopCondition(tick, config.max_ticks)
    /\ AdvanceTickCore

\* the counts of the results dictionary
RunResults ==
    [final_tick |-> tick,
     total_identities |-> Len(identities),
     total_detection_events |-> Len(detection_events),
     total_conflict_resolutions |-> Len(conflict_resolutions)]

\* the loop is left and the results are returned
RunReturn ==
    /\ pc.at = "running"
    /\ ~LoopCondition(tick, config.max_ticks)
    /\ pc' = [pc EXCEPT !.at = "returned", !.results = RunResults]
    /\ UNCHANGED <<tick, identities, recruiters, echo_fields, coexistence_registry,
                   detection_events, conflict_resolutions, composite_particles,
                   results_history, config, next_id>>

NextRun ==
    SetUpElectron \/ SetUpPositron \/ ManualTick \/ CallRunSimulation
        \/ RunIteration \/ RunReturn

\* what a step of run_simulation does to tick and pc; the steps of NextRun that
\* satisfy it are those of RunIteration and RunReturn
RunProgress ==
    /\ pc.at = "running"
    /\ \/ tick < config.max_ticks /\ tick' = tick + 1 /\ pc' = pc
       \/ /\ tick >= config.max_ticks /\ tick' = tick
          /\ pc' = [pc EXCEPT !.at = "returned", !.results = RunResults]

\* a call of run_simulation goes on running: nothing suspends the loop
SpecRun == InitRun /\ [][NextRun]_vars /\ WF_<<tick, pc>>(RunProgress)

-----------------------------------------------------------------------------
(* The modular engine: get_neighbors on lattices of every shape *)

\* the cells of a lattice, as _initialize_echo_fields makes them
CellsOf(shape) ==
    {<<x, y, z>> : x \in 0..(shape[1] - 1), y \in 0..(shape[2] - 1),
                   z \in 0..(shape[3] - 1)}

Connectivities == {6, 8, 12}

\* In this specification pc holds the last call of get_neighbors: the cell it
\* was called for and the list it returned.
NotCalled == [at |-> "idle", cell |-> NoPos, neighbors |-> <<>>]

\* an engine just constructed, for every connectivity and lattice_size
InitNeighbors ==
    /\ tick = 0
    /\ identities = <<>>
    /\ recruiters = <<>>
    /\ config \in {[ConfigDefaults EXCEPT !.connectivity = c, !.lattice_size = shape] :
                       c \in Connectivities,
                       shape \in (1..MaxSide) \X (1..MaxSide) \X (1..MaxSide)}
    /\ echo_fields = [p \in CellsOf(config.lattice_size) |-> 0]
    /\ coexistence_registry = <<>>
    /\ detection_events = <<>>
    /\ conflict_resolutions = <<>>
    /\ composite_particles = <<>>
    /\ results_history = <<>>
    /\ next_id = 1
    /\ pc = NotCalled

\* engine.get_neighbors(*cell) for a cell of the lattice
CallGetNeighbors ==
    /\ \E cell \in DOMAIN echo_fields :
          pc' = [at |-> "returned", cell |-> cell,
                 neighbors |-> GetNeighborsIn(config.lattice_size,
                                              config.connectivity, cell)]
    /\ UNCHANGED <<tick, identities, recruiters, echo_fields, coexistence_registry,
                   detection_events, conflict_resolutions, composite_particles,
                   results_history, config, next_id>>

NextNeighbors == CallGetNeighbors

SpecNeighbors == InitNeighbors /\ [][NextNeighbors]_vars

-----------------------------------------------------------------------------
(* The modular engine: apply_echo_inheritance, cell by cell *)

\* In this specification the two loops of apply_echo_inheritance run one cell
\* per step, in any order, so that what a later cell reads after an earlier
\* one was handled is part of the model. pc holds the position in the method:
\* the field as it was at the call, the cells the first loop has still to
\* visit, new_echo_values, and the cells the second loop has written.
NotInheriting ==
    [at |-> "idle", before |-> <<>>, todo |-> {}, new_echo_values |-> <<>>, written |-> {}]

EchoLevels == {0, 12345}

\* lattices of at most MaxCells cells
InheritanceShapes ==
    {shape \in (1..MaxSide) \X (1..MaxSide) \X (1..MaxSide) :
        shape[1] * shape[2] * shape[3] <= MaxCells}

InitInheritance ==
    /\ tick = 0
    /\ identities = <<>>
    /\ recruiters = <<>>
    /\ config \in {[ConfigDefaults EXCEPT !.connectivity = c, !.lattice_size = shape,
                                          !.inheritance_alpha = a] :
                       c \in Connectivities, shape \in InheritanceShapes,
                       a \in {0, InheritanceAlpha}}
    /\ echo_fields \in [CellsOf(config.lattice_size) -> EchoLevels]
    /\ coexistence_registry = <<>>
    /\ detection_events = <<>>
    /\ conflict_resolutions = <<>>
    /\ composite_particles = <<>>
    /\ results_history = <<>>
    /\ next_id = 1
    /\ pc = NotInheriting

\* if self.config.inheritance_alpha <= 0: return;  new_echo_values = {}
CallApplyEchoInheritance ==
    /\ pc.at = "idle"
    /\ pc' = IF config.inheritance_alpha <= 0
             THEN [NotInheriting EXCEPT !.at = "returned", !.before = echo_fields]
             ELSE [NotInheriting EXCEPT !.at = "collect", !.before = echo_fields,
                                        !.todo = DOMAIN echo_fields]
    /\ UNCHANGED <<tick, identities, recruiters, echo_fields, coexistence_registry,
                   detection_events, conflict_resolutions, composite_particles,
                   results_history, config, next_id>>

\* echo_field.rho_local + inheritance_alpha * (sum(...) / len(neighbors))
NewEcho(cfg, ef, neighbors, position) ==
    ef[position]
    + FloorDiv(cfg.inheritance_alpha
               * FloorDiv(SumSeq([k \in 1..Len(neighbors) |-> ef[neighbors[k]]]),
                          Len(neighbors)), Milli)

\* variant for mutation analysis: the first loop writes the cell at once
FieldAfterCollectInPlace(ef, position, new_echo) == FunPut(ef, position, new_echo)

\* the field after one pass of the first loop: it only fills new_echo_values
FieldAfterCollect(ef, position, new_echo) == ef

\* one pass of "for position, echo_field in self.echo_fields.items()"
CollectStep ==
    /\ pc.at = "collect"
    /\ \E position \in pc.todo :
          LET neighbors == GetNeighborsIn(config.lattice_size, config.connectivity, position)
              new_echo == NewEcho(config, echo_fields, neighbors, position)
          IN  IF neighbors # <<>>
              THEN /\ pc' = [pc EXCEPT !.todo = @ \ {position},
                                       !.new_echo_values = FunPut(@, position, new_echo)]
                   /\ echo_fields' = FieldAfterCollect(echo_fields, position, new_echo)
              ELSE /\ pc' = [pc EXCEPT !.todo = @ \ {position}]
                   /\ echo_fields' = echo_fields
    /\ UNCHANGED <<tick, identities, recruiters, coexistence_registry, detection_events,
                   conflict_resolutions, composite_particles, results_history, config,
                   next_id>>

\* one pass of "for position, new_value in new_echo_values.items()"
WriteStep ==
    /\ pc.at = "collect"
    /\ pc.todo = {}
    /\ \E position \in (DOMAIN pc.new_echo_values) \ pc.written :
          /\ echo_fields' = FunPut(echo_fields, position, pc.new_echo_values[position])
          /\ pc' = [pc EXCEPT !.written = @ \cup {position}]
    /\ UNCHANGED <<tick, identities, recruiters, coexistence_registry, detection_events,
                   conflict_resolutions, composite_particles, results_history, config,
                   next_id>>

\* the second loop is exhausted
InheritanceReturn ==
    /\ pc.at = "collect"
    /\ pc.todo = {}
    /\ pc.written = DOMAIN pc.new_echo_values
    /\ pc' = [pc EXCEPT !.at = "returned"]
    /\ UNCHANGED <<tick, identities, recruiters, echo_fields, coexistence_registry,
                   detection_events, conflict_resolutions, composite_particles,
                   results_history, config, next_id>>

NextInheritance ==
    CallApplyEchoInheritance \/ CollectStep \/ WriteStep \/ InheritanceReturn

SpecInheritance == InitInheritance /\ [][NextInheritance]_vars

-----------------------------------------------------------------------------
(* Properties of the modular engine (SpecCore) *)

LivingIdsAt(p) ==
    {identities[k].unique_id : k \in {n \in 1..Len(identities) : identities[n].position = p}}

RegisteredIdsAt(p) ==
    IF DictHas(coexistence_registry, p) THEN Range(DictGet(coexistence_registry, p)) ELSE {}

\* C1: for every position p the coexistence registry entry for p holds exactly
\* the unique_ids of the living identities whose position is p.
C1_RegistryIsLivingIdentities ==
    \A p \in Lattice \cup Range(DictKeys(coexistence_registry)) :
        RegisteredIdsAt(p) = LivingIdsAt(p)

\* the index pairs of co-located identities linked by antiparticle_of
LinkedPairs(ids) ==
    {pr \in (1..Len(ids)) \X (1..Len(ids)) :
        /\ pr[1] # pr[2]
        /\ ids[pr[1]].position # NoPos
        /\ ids[pr[1]].position = ids[pr[2]].position
        /\ ids[pr[1]].antiparticle_of = ids[pr[2]].unique_id}

FlaggedPairs(ids) == {pr \in LinkedPairs(ids) : ids[pr[1]].is_antiparticle}

IsPhoton(i) == i.module_tag = <<"P","H","O","T","O","N">>

\* the photons of the next state that the identities ids did not contain
NewPhotonsAt(ids, p) ==
    {k \in 1..Len(identities') :
        /\ IsPhoton(identities'[k])
        /\ identities'[k].position = p
        /\ \A n \in 1..Len(ids) : ids[n].unique_id # identities'[k].unique_id}

\* both identities of the pair are gone after the tick and a new photon at their
\* position carries the sum of their energies
PairAnnihilated(e, pr) ==
    LET a == e.identities[pr[1]]
        b == e.identities[pr[2]]
        sum == CalculateParticleEnergy(a, Center, e.echo_fields)
               + CalculateParticleEnergy(b, Center, e.echo_fields)
    IN  /\ \A k \in 1..Len(identities') :
              identities'[k].unique_id \notin {a.unique_id, b.unique_id}
        /\ \E k \in NewPhotonsAt(e.identities, a.position) :
              identities'[k].energy_content = sum

\* one photon per pair at every position
OnePhotonPerPair(e, pairs) ==
    \A p \in Lattice :
        Cardinality(NewPhotonsAt(e.identities, p))
        = Cardinality({{pr[1], pr[2]} : pr \in {q \in pairs : e.identities[q[1]].position = p}})

\* C7 as stated: with detection events enabled, whenever an identity and the
\* identity named by its antiparticle_of link share a position at the detection
\* step, both are removed by the end of the tick and one new PHOTON at that
\* position carries the sum of their energies.
C7_LinkedPairAnnihilates ==
    [][(tick' = tick + 1 /\ config.enable_detection_events) =>
          LET e == CoreAfterReformation
          IN  /\ \A pr \in LinkedPairs(e.identities) : PairAnnihilated(e, pr)
              /\ OnePhotonPerPair(e, LinkedPairs(e.identities))]_vars

\* C7 amended: the same for an identity flagged is_antiparticle and the identity
\* named by its antiparticle_of link, one photon for each such pair.
C7_FlaggedPairAnnihilates ==
    [][(tick' = tick + 1 /\ config.enable_detection_events) =>
          LET e == CoreAfterReformation
          IN  /\ \A pr \in FlaggedPairs(e.identities) : PairAnnihilated(e, pr)
              /\ OnePhotonPerPair(e, FlaggedPairs(e.identities))]_vars

\* an annihilation has happened: its photon lives and its event is recorded
C7_Witness ==
    /\ \E k \in 1..Len(identities) : IsPhoton(identities[k])
    /\ \E n \in 1..Len(results_history) :
          \E m \in 1..Len(results_history[n].detection_events) :
              results_history[n].detection_events[m].photon_energy
              = results_history[n].detection_events[m].energy_released

RecordedResults ==
    UNION {Range(results_history[n].return_results) : n \in 1..Len(results_history)}

\* C8: for an identity at a position with a recruiter, return_allowed is true
\* exactly when phase_match, ancestry_match and echo_match are all true.
C8_AllowedIffAllThreeMatch ==
    \A r \in RecordedResults :
        "phase_match" \in DOMAIN r.evaluation =>
            (r.return_allowed <=> (/\ r.evaluation.phase_diff <= PhaseTolerance
                                   /\ r.evaluation.ancestry_match
                                   /\ r.evaluation.rho_hybrid >= RhoMin))

\* the recorded results that were refused with only the predicate named false
RefusedOnlyBy(name) ==
    {r \in RecordedResults :
        /\ "phase_match" \in DOMAIN r.evaluation
        /\ \A m \in {"phase_match", "ancestry_match", "echo_match"} :
              r.evaluation[m] <=> (m # name)}

\* one identity was allowed, and two others were refused, each with a single
\* predicate false and not the same one
C8_Witness ==
    /\ \E r \in RecordedResults : r.return_allowed
    /\ \E m, n \in {"phase_match", "ancestry_match", "echo_match"} :
          m # n /\ RefusedOnlyBy(m) # {} /\ RefusedOnlyBy(n) # {}

\* C9: a return-allowed identity gets the recruiter's phase and ancestry, the
\* echo field at its position gains 1.0 for each reformation there, its id is on
\* the recruiter once, and its status is Coexisting if two or more identities
\* share the position and Complete otherwise.
C9_ReformationOutcome ==
    [][tick' = tick + 1 =>
          LET before == CoreAfterPhases
              after == CoreAfterReformation
              allowed == {k \in 1..Len(CoreReturnResults) : CoreReturnResults[k].return_allowed}
              sharing(k) == {n \in 1..Len(before.identities) :
                                before.identities[n].position = before.identities[k].position}
          IN  /\ \A k \in allowed :
                    LET i == after.identities[k]
                        recruiter == after.recruiters[i.position]
                    IN  /\ i.theta = recruiter.theta_recruiter
                        /\ i.ancestry = recruiter.ancestry_recruiter
                        /\ Cardinality({n \in 1..Len(recruiter.returned_identities) :
                              recruiter.returned_identities[n] = i.unique_id}) = 1
                        /\ i.return_status = IF Cardinality(sharing(k)) >= 2
                                             THEN "coexisting" ELSE "complete"
              /\ \A p \in DOMAIN after.echo_fields :
                    after.echo_fields[p] = before.echo_fields[p] + Reinforcement *
                        Cardinality({k \in allowed : before.identities[k].position = p})]_vars

\* the result evaluate_return_eligibility gives when it finds no recruiter
Denied == [return_allowed |-> FALSE, evaluation |-> [reason |-> "no_recruiter"]]

\* C11: an identity with no position, or at a position with no recruiter, is
\* denied with reason no_recruiter, the tick completes, and the reformation
\* step leaves the identity as the phase advance left it, adds its id to no
\* recruiter and leaves the echo field at its position alone.
C11_NoRecruiterIsDenied ==
    [][tick' = tick + 1 =>
          LET before == CoreAfterPhases
              results == CoreReturnResults
              after == CoreAfterReformation
              recorded == results_history'[Len(results_history')].return_results
          IN  \A k \in 1..Len(before.identities) :
                  LET i == before.identities[k]
                  IN  (i.position = NoPos \/ i.position \notin DOMAIN recruiters) =>
                        /\ results[k] = Denied
                        /\ recorded[k] = [identity_id |-> i.unique_id,
                                          return_allowed |-> FALSE,
                                          evaluation |-> Denied.evaluation]
                        /\ after.identities[k] = i
                        /\ i.ancestry = identities[k].ancestry
                        /\ i.return_status = identities[k].return_status
                        /\ \A p \in DOMAIN after.recruiters :
                              i.unique_id \notin Range(after.recruiters[p].returned_identities)
                        /\ i.position \in DOMAIN after.echo_fields =>
                              after.echo_fields[i.position] = before.echo_fields[i.position]]_vars

\* a tick has denied both an identity without a position and an identity at a
\* cell without a recruiter, and both are still as they were placed
C11_Witness ==
    /\ tick >= 1
    /\ \E k, n \in 1..Len(identities) :
          /\ identities[k].position = NoPos
          /\ identities[n].position = Far
          /\ \A m \in {k, n} :
                /\ identities[m].ancestry = Profiles["match"].ancestry
                /\ identities[m].return_status = "pending"
                /\ identities[m].tick_memory = tick
                /\ \E r \in Range(results_history[tick].return_results) :
                      /\ r.identity_id = identities[m].unique_id
                      /\ r.evaluation = Denied.evaluation

\* the identities the detection step of the tick removes, as indices into the
\* identities the step starts from, and their energies before the step
RemovedByTick ==
    {k \in 1..Len(CoreAfterReformation.identities) :
        \A n \in 1..Len(identities') :
            identities'[n].unique_id # CoreAfterReformation.identities[k].unique_id}

EnergyOfRemoved ==
    LET e == CoreAfterReformation
    IN  SumSeq([k \in 1..Len(e.identities) |->
                   IF k \in RemovedByTick
                   THEN CalculateParticleEnergy(e.identities[k], Center, e.echo_fields)
                   ELSE 0])

\* C16: in every tick with an annihilation the snapshot's energy_released_total
\* is the sum of the energies, before the annihilation, of the identities the
\* tick removed.
C16_ReleasedEnergyIsEnergyOfRemoved ==
    [][(tick' = tick + 1 /\ results_history'[tick'].detection_events # <<>>) =>
          results_history'[tick'].energy_released_total = EnergyOfRemoved]_vars

\* the tick reforms no identity, so add_reinforcement is not called in it
NoReinforcementInTick ==
    /\ tick' = tick + 1
    /\ CoreAfterReformation.echo_fields = CoreAfterPhases.echo_fields

\* C17 as stated: across ticks without reinforcement no cell's echo value
\* increases from one tick to the next.
C17_EchoNeverIncreases ==
    [][NoReinforcementInTick =>
          \A p \in Lattice : echo_fields'[p] <= echo_fields[p]]_vars

\* C17, amended: in a tick without reinforcement the decay step increases no
\* cell, and a cell ends the tick above its value before the tick only by
\* inheriting from a neighbour that has echo; its value never falls below the
\* decayed one.
C17_EchoIncreasesOnlyByInheritance ==
    [][NoReinforcementInTick =>
          \A p \in Lattice :
              /\ ApplyEchoDecay(echo_fields)[p] <= echo_fields[p]
              /\ ApplyEchoDecay(echo_fields)[p] <= echo_fields'[p]
              /\ echo_fields'[p] > echo_fields[p] =>
                    \E k \in 1..Len(GetNeighbors(config.connectivity, p)) :
                        echo_fields[GetNeighbors(config.connectivity, p)[k]] > 0]_vars

\* no identity was ever reformed, and a cell beside the seeded centre has more
\* echo than the scenario gave it
C17_Witness ==
    /\ tick >= 1
    /\ \A p \in DOMAIN recruiters : recruiters[p].returned_identities = <<>>
    /\ \E p \in Lattice : echo_fields[p] > ScenarioEcho[p]
    /\ echo_fields[Center] < ScenarioEcho[Center]

\* C18: run_simulation terminates; every advance_tick adds exactly 1 to tick and
\* one snapshot to results_history; on return tick = max_ticks when tick was at
\* most max_ticks at the call, max_ticks - tick ticks having been executed, and
\* no tick is executed when tick was max_ticks or more at the call.
C18_RunSimulationTerminates ==
    /\ [](pc.at = "running" => <>(pc.at = "returned"))
    /\ [][(tick' # tick \/ results_history' # results_history) =>
             /\ tick' = tick + 1
             /\ Len(results_history') = Len(results_history) + 1
             /\ results_history'[Len(results_history')].tick = tick']_vars
    /\ [](pc.at = "returned" =>
             /\ pc.called_at <= config.max_ticks =>
                   /\ tick = config.max_ticks
                   /\ Len(results_history) - pc.called_at
                      = config.max_ticks - pc.called_at
             /\ pc.called_at >= config.max_ticks => tick = pc.called_at)
    /\ [](pc.at = "running" /\ pc.called_at >= config.max_ticks
             => tick = pc.called_at /\ Len(results_history) = pc.called_at)

\* run_simulation was called after one tick made by hand, in which a pair
\* annihilated, and has returned after two ticks of its own
C18_Witness ==
    /\ pc.at = "returned"
    /\ pc.called_at = 1
    /\ config.max_ticks = 3
    /\ tick = 3
    /\ Len(results_history) = 3
    /\ results_history[1].detection_events # <<>>

\* C19: detection events and conflict resolutions are ephemeral: between the
\* ticks the engine's two lists are empty, every event and resolution a tick
\* raises is in the snapshot of that tick, and a snapshot holds only events and
\* resolutions of its own tick.
C19_EventsAreEphemeral ==
    /\ [](/\ detection_events = <<>>
          /\ conflict_resolutions = <<>>
          /\ \A t \in 1..Len(results_history) :
                /\ \A k \in 1..Len(results_history[t].detection_events) :
                      results_history[t].detection_events[k].tick = t
                /\ \A k \in 1..Len(results_history[t].conflict_resolutions) :
                      results_history[t].conflict_resolutions[k].tick = t)
    /\ [][tick' = tick + 1 =>
             /\ results_history'[tick'].detection_events
                = CoreAfterDetection.detection_events
             /\ results_history'[tick'].conflict_resolutions
                = CoreAfterDetection.conflict_resolutions
             /\ config.enable_detection_events =>
                   Len(results_history'[tick'].detection_events)
                   = Len(Annihilations(CoreAfterReformation.identities))
             /\ SubSeq(results_history', 1, tick) = results_history]_vars

\* an annihilation was recorded in the first tick, the second tick recorded
\* nothing, and the engine holds no event and no resolution
C19_Witness ==
    /\ tick = 2
    /\ Len(results_history[1].detection_events) >= 1
    /\ Len(results_history[1].conflict_resolutions) >= 1
    /\ results_history[2].detection_events = <<>>
    /\ results_history[2].conflict_resolutions = <<>>
    /\ detection_events = <<>>
    /\ conflict_resolutions = <<>>

\* the offsets in the order of the contract: the six axis-aligned ones, then
\* the diagonals of the xy plane, then the other diagonals
OffsetOrder == Directions6 \o EdgesXY \o EdgesRest

OffsetRank(cell, q) ==
    CHOOSE k \in 1..Len(OffsetOrder) :
        q = <<cell[1] + OffsetOrder[k][1], cell[2] + OffsetOrder[k][2],
              cell[3] + OffsetOrder[k][3]>>

IsNeighbourOffset(cell, q) ==
    \E k \in 1..Len(OffsetOrder) :
        q = <<cell[1] + OffsetOrder[k][1], cell[2] + OffsetOrder[k][2],
              cell[3] + OffsetOrder[k][3]>>

Interior(shape, cell) ==
    \A d \in 1..3 : 1 <= cell[d] /\ cell[d] <= shape[d] - 2

\* C20: for every cell and every connectivity in {6, 8, 12}, get_neighbors
\* returns, in the fixed offset order (axis-aligned before diagonal), only cells
\* of the lattice, never the cell itself and none twice; for an interior cell
\* the list has connectivity entries; at the boundary exactly the out-of-bounds
\* ones of the first connectivity offsets are missing, the rest in order.
C20_NeighboursInOrderAndInBounds ==
    pc.at = "returned" =>
        LET cell == pc.cell
            result == pc.neighbors
            shape == config.lattice_size
        IN  /\ \A k \in 1..Len(result) :
                  /\ InShape(shape, result[k])
                  /\ result[k] # cell
                  /\ IsNeighbourOffset(cell, result[k])
                  /\ OffsetRank(cell, result[k]) <= config.connectivity
            /\ \A k, n \in 1..Len(result) :
                  k < n => OffsetRank(cell, result[k]) < OffsetRank(cell, result[n])
            /\ \A k \in 1..config.connectivity :
                  LET q == <<cell[1] + OffsetOrder[k][1], cell[2] + OffsetOrder[k][2],
                             cell[3] + OffsetOrder[k][3]>>
                  IN  InShape(shape, q) => \E n \in 1..Len(result) : result[n] = q
            /\ Interior(shape, cell) => Len(result) = config.connectivity

\* the neighbours of the interior cell of the 3 x 3 x 3 lattice were listed
\* with connectivity 12
C20_Witness ==
    /\ pc.at = "returned"
    /\ config.connectivity = 12
    /\ config.lattice_size = <<3, 3, 3>>
    /\ pc.cell = <<1, 1, 1>>
    /\ Len(pc.neighbors) = 12

\* the value the inheritance step owes a cell, from the field before the call
InheritedFrom(cfg, before, position) ==
    LET neighbors == GetNeighborsIn(cfg.lattice_size, cfg.connectivity, position)
    IN  IF cfg.inheritance_alpha <= 0 \/ neighbors = <<>>
        THEN before[position]
        ELSE before[position]
             + FloorDiv(cfg.inheritance_alpha
                        * FloorDiv(SumSeq([k \in 1..Len(neighbors) |-> before[neighbors[k]]]),
                                   Len(neighbors)), Milli)

\* C24: apply_echo_inheritance is order-independent: whatever the order in
\* which the cells are visited, when the method returns every cell holds its
\* own value at the call plus inheritance_alpha times the mean of its
\* neighbours' values at the call; a cell without neighbours, and the whole
\* field when inheritance_alpha <= 0, is unchanged.
C24_InheritanceFromSnapshot ==
    pc.at = "returned"
    => /\ DOMAIN echo_fields = DOMAIN pc.before
       /\ \A position \in DOMAIN echo_fields :
             echo_fields[position] = InheritedFrom(config, pc.before, position)
       /\ config.inheritance_alpha <= 0 => echo_fields = pc.before

\* the method returned after raising a cell whose neighbour was raised too
C24_Witness ==
    /\ pc.at = "returned"
    /\ config.inheritance_alpha > 0
    /\ \E position \in DOMAIN echo_fields :
          LET neighbors == GetNeighborsIn(config.lattice_size, config.connectivity, position)
          IN  /\ neighbors # <<>>
              /\ echo_fields[position] > pc.before[position]
              /\ echo_fields[neighbors[1]] > pc.before[neighbors[1]]
              /\ echo_fields[position] = InheritedFrom(config, pc.before, position)

\* C25: the neighbour values echo inheritance reads in tick t are the values
\* the fields had at the end of tick t-1: the value a cell gains in a tick is
\* inheritance_alpha times the mean of its neighbours' values before the tick,
\* without the decay and the reinforcement of tick t.
C25_InheritanceReadsPreTickValues ==
    [][tick' = tick + 1 =>
          \A p \in Lattice :
              LET neighbors == GetNeighbors(config.connectivity, p)
              IN  neighbors # <<>> =>
                      echo_fields'[p]
                      = CoreAfterReformation.echo_fields[p]
                        + FloorDiv(InheritanceAlpha
                              * FloorDiv(SumSeq([k \in 1..Len(neighbors) |->
                                                    echo_fields[neighbors[k]]]),
                                         Len(neighbors)), Milli)]_vars

\* the per-tick snapshots of the run that has returned
RunHistory == SubSeq(results_history, pc.called_at + 1, Len(results_history))

\* C28: the result of run_simulation reports the totals of the run:
\* total_detection_events is the number of detection events in the per-tick
\* snapshots of the run, total_conflict_resolutions that of the resolutions.
C28_TotalsAreSumsOverHistory ==
    pc.at = "returned" =>
        /\ pc.results.total_detection_events
           = SumSeq([t \in 1..Len(RunHistory) |-> Len(RunHistory[t].detection_events)])
        /\ pc.results.total_conflict_resolutions
           = SumSeq([t \in 1..Len(RunHistory) |-> Len(RunHistory[t].conflict_resolutions)])

\* C29: the neighbour relation of get_neighbors is symmetric for every
\* connectivity in {6, 8, 12}: every cell q that get_neighbors returns for a
\* cell p has p among the cells get_neighbors returns for q.
C29_NeighboursAreSymmetric ==
    (pc.at = "returned" /\ config.connectivity \in Connectivities) =>
        \A n \in 1..Len(pc.neighbors) :
            \E k \in 1..Len(GetNeighborsIn(config.lattice_size, config.connectivity,
                                           pc.neighbors[n])) :
                GetNeighborsIn(config.lattice_size, config.connectivity,
                               pc.neighbors[n])[k] = pc.cell

\* C30: within one advance_tick the eligibility of every identity is evaluated
\* before any identity is reformed: the result recorded for an identity is the
\* evaluation of that identity alone against the recruiters and echo fields as
\* they are after phase advancement and decay, whatever its place in
\* engine.identities and whichever other identities the tick reforms.
C30_EligibilityBeforeReformation ==
    [][tick' = tick + 1 =>
          LET recorded == results_history'[Len(results_history')].return_results
          IN  /\ Len(recorded) = Len(identities)
              /\ \A k \in 1..Len(identities) :
                    LET r == EvaluateReturnEligibility(config, AdvanceRecruiters(recruiters),
                                                       ApplyEchoDecay(echo_fields),
                                                       IdentityUpdatePhase(identities[k]))
                    IN  /\ recorded[k].identity_id = identities[k].unique_id
                        /\ recorded[k].return_allowed = r.return_allowed
                        /\ recorded[k].evaluation = r.evaluation]_vars

\* in the last tick an identity was reformed at a cell and a later identity of
\* the list, at the same cell, was evaluated (and allowed) as well
C30_Witness ==
    /\ tick >= 1
    /\ \E k, j \in 1..Len(identities) :
          LET recorded == results_history[Len(results_history)].return_results
          IN  /\ k < j
              /\ j <= Len(recorded)
              /\ identities[k].position = identities[j].position
              /\ recorded[k].identity_id = identities[k].unique_id
              /\ recorded[j].identity_id = identities[j].unique_id
              /\ recorded[k].return_allowed
              /\ recorded[j].return_allowed
              /\ recorded[j].evaluation.rho_hybrid = recorded[k].evaluation.rho_hybrid

-----------------------------------------------------------------------------
(* The nucleon engine, src/current_monolith/versions/005: beta decay *)

ProbScale == Milli * Milli     \* the probability 1.0, in millionths
DecayLifetimeTicks == 900      \* NeutronTimingPattern: decay_lifetime_ticks
BindingStrength == 15000       \* NeutronTimingPattern: binding_strength = 15.0
NeutrinoEnergy == 100          \* neutrino_energy = 0.1
ProtonTimingRate == 1000       \* EnhancedProtonTimingPattern.core_timing_rate
NeutrinoTimingRate == 100      \* NeutrinoTimingPattern.core_timing_rate

\* values np.random.random() may return, in millionths
DecaySamples == {0, 2000, 500000}

NoLifetime == 0                \* decay_lifetime_ticks None: a stable composite

\* the exponential decay law 1 - exp(-age / lifetime) of
\* calculate_decay_probability, by the series x - x^2/2 + x^3/6 in millionths
\* (one factor of each product is taken in thousandths: 32-bit integers)
DecayLaw(lifetime, age) ==
    LET x == FloorDiv(age * ProbScale, lifetime)
        x2 == FloorDiv(x * FloorDiv(x, Milli), 2 * Milli)
        x3 == FloorDiv(x2 * FloorDiv(x, Milli), 3 * Milli)
    IN  IF lifetime = NoLifetime THEN 0
        ELSE IF age <= 0 THEN 0
        ELSE x - x2 + x3

\* CompositeBinding.calculate_decay_probability on the neutron's binding
CalculateDecayProbability(current_tick, creation_tick) ==
    DecayLaw(DecayLifetimeTicks, current_tick - creation_tick)

\* decay_prob of process_beta_decay at tick t
BetaDecayProbability(t) == CalculateDecayProbability(t, 0)

\* variant for mutation analysis: the nucleon step of the tick is skipped
ProcessNucleonPhysicsIdle(cfg, n, ef, t, samples) == n

\* variant for mutation analysis: the binding energy is left out of the q value
TestBetaDecayFeasibilityUnbound(echo_field_strength) ==
    0 - (CalculateStabilityScore(ProtonTimingRate, echo_field_strength)
         + CalculateStabilityScore(ElectronTimingRate, echo_field_strength)
         + NeutrinoEnergy) > 0

\* test_beta_decay_feasibility(...)["feasible"], the constituent patterns being
\* those create_neutron_composite stored on the neutron pattern
TestBetaDecayFeasibility(echo_field_strength) ==
    LET total_product_energy ==
            CalculateStabilityScore(ProtonTimingRate, echo_field_strength)
            + CalculateStabilityScore(ElectronTimingRate, echo_field_strength)
            + NeutrinoEnergy
    IN  BindingStrength - total_product_energy > 0

\* tags and ancestries of the nucleon engine are abbreviated to initials:
\* NC = NEUTRON_CONSTITUENT, BDP = BETA_DECAY_PRODUCT, PC = PROTON_CORE,
\* BE = BOUND_ELECTRON, EN = ELECTRON_NEUTRINO, FP = FREE_PROTON,
\* FE = FREE_ELECTRON, AN = ANTINEUTRINO
Constituent(id, tag, th, dth, pos, kind, rate, composite_id, t) ==
    [Identity(id, tag, <<"N","C">>, th, dth, pos)
        EXCEPT !.fundamental_particle = kind, !.core_timing_rate = rate,
               !.parent_composite_id = composite_id, !.creation_tick = t]

DecayProduct(id, tag, th, dth, pos, kind, rate, t, anti) ==
    [Identity(id, tag, <<"B","D","P">>, th, dth, pos)
        EXCEPT !.fundamental_particle = kind, !.core_timing_rate = rate,
               !.creation_tick = t, !.is_decay_product = TRUE,
               !.is_antiparticle = anti]

\* append the identities of news one by one to ids, registering each at its
\* position; gives the identities and the registry
RECURSIVE RegisterAll(_, _, _)
RegisterAll(ids, reg, news) ==
    IF news = <<>> THEN [identities |-> ids, coexistence_registry |-> reg]
    ELSE LET i == Head(news)
             reg1 == RegistryRegister(reg, i.position, i.unique_id)
         IN  RegisterAll(Append(ids, IdentityRegister(reg1, i.position, i)),
                         reg1, Tail(news))

\* the registry after the removal loop of process_beta_decay
RECURSIVE UnregisterAll(_, _)
UnregisterAll(reg, gone) ==
    IF gone = <<>> THEN reg
    ELSE LET i == Head(gone)
         IN  UnregisterAll(
                IF DictHas(reg, i.position)
                THEN DictPut(reg, i.position,
                             ListRemove(DictGet(reg, i.position), i.unique_id))
                ELSE reg,
                Tail(gone))

\* where process_beta_decay puts the three products
ProtonPosition(p) == p
ElectronPosition(p) == <<p[1] + 1, p[2], p[3]>>
AntineutrinoPosition(p) == <<p[1], p[2] + 1, p[3]>>

\* variant for mutation analysis: the composite record is kept
CompositesKept(composites, composite_id) == composites

\* del self.composite_particles[neutron_composite_id]
CompositesAfterDecay(composites, composite_id) == DictDel(composites, composite_id)

\* the engine's nucleon state as one value
Nucleons(ids, reg, composites, nid) ==
    [identities |-> ids, coexistence_registry |-> reg,
     composite_particles |-> composites, next_id |-> nid]

\* process_beta_decay: its return value and the state after it
ProcessBetaDecay(n, ef, t, composite_id, neutron_position, sample) ==
    IF ~DictHas(n.composite_particles, composite_id)
        THEN [occurred |-> FALSE, state |-> n]
    ELSE IF ~TestBetaDecayFeasibility(ef[neutron_position])
        THEN [occurred |-> FALSE, state |-> n]
    ELSE IF sample > BetaDecayProbability(t)
        THEN [occurred |-> FALSE, state |-> n]
    ELSE LET products ==
                << DecayProduct(n.next_id, <<"F","P">>, 500, 50,
                                ProtonPosition(neutron_position),
                                "proton", ProtonTimingRate, t, FALSE),
                   DecayProduct(n.next_id + 1, <<"F","E">>, 250, 30,
                                ElectronPosition(neutron_position),
                                "electron", ElectronTimingRate, t, FALSE),
                   DecayProduct(n.next_id + 2, <<"A","N">>, 100, 10,
                                AntineutrinoPosition(neutron_position),
                                "neutrino", NeutrinoTimingRate, t, TRUE) >>
             bound(i) == i.parent_composite_id = composite_id
             kept == SelectSeq(n.identities, LAMBDA i : ~bound(i))
             gone == SelectSeq(n.identities, bound)
             added == RegisterAll(kept, UnregisterAll(n.coexistence_registry, gone),
                                  products)
         IN  [occurred |-> TRUE,
              state |-> Nucleons(added.identities, added.coexistence_registry,
                                 CompositesAfterDecay(n.composite_particles, composite_id),
                                 n.next_id + 3)]

\* the position process_nucleon_physics finds for a composite, None if it has
\* no constituent
NeutronPosition(ids, composite_id) ==
    LET bound == SelectSeq(ids, LAMBDA i : i.parent_composite_id = composite_id)
    IN  IF bound = <<>> THEN NoPos ELSE bound[1].position

\* the loop of process_nucleon_physics over list(composite_particles.keys())
RECURSIVE NucleonPhysicsFrom(_, _, _, _, _, _)
NucleonPhysicsFrom(n, ef, t, keys, samples, k) ==
    IF k > Len(keys) THEN n
    ELSE LET pos == NeutronPosition(n.identities, keys[k])
         IN  NucleonPhysicsFrom(
                IF pos # NoPos
                THEN ProcessBetaDecay(n, ef, t, keys[k], pos, samples[k]).state
                ELSE n,
                ef, t, keys, samples, k + 1)

ProcessNucleonPhysics(cfg, n, ef, t, samples) ==
    IF cfg.enable_beta_decay
    THEN NucleonPhysicsFrom(n, ef, t, DictKeys(n.composite_particles), samples, 1)
    ELSE n

-----------------------------------------------------------------------------
(* The nucleon engine: scenarios and advance_tick *)

NucleonCells == {Origin, Center, Far}

InitNucleon ==
    /\ tick = 0
    /\ identities = <<>>
    /\ recruiters = [p \in RecruiterCells |-> ScenarioRecruiter]
    /\ echo_fields = ScenarioEcho
    /\ coexistence_registry = <<>>
    /\ detection_events = <<>>
    /\ conflict_resolutions = <<>>
    /\ composite_particles = <<>>
    /\ results_history = <<>>
    /\ config \in {[ConfigDefaults EXCEPT !.enable_nucleon_internal_structure = n,
                                          !.enable_beta_decay = b,
                                          !.beta_decay_lifetime_ticks = l] :
                      n, b \in BOOLEAN,
                      l \in {ConfigBetaDecayLifetime, TrialBetaDecayLifetime}}
    /\ next_id = 1
    /\ pc = "ready"

\* create_neutron_composite(position); without the NEUTRON pattern it returns None
CreateNeutronComposite ==
    \E position \in NucleonCells :
        /\ config.enable_nucleon_internal_structure
        /\ tick < MaxTicks
        /\ Len(identities) < 3 * MaxComposites
        /\ LET composite_id == next_id
               made == RegisterAll(identities, coexistence_registry,
                          << Constituent(next_id + 1, <<"P","C">>, 500, 50, position,
                                         "proton", ProtonTimingRate, composite_id, tick),
                             Constituent(next_id + 2, <<"B","E">>, 250, 30, position,
                                         "electron", ElectronTimingRate, composite_id, tick),
                             Constituent(next_id + 3, <<"E","N">>, 100, 10, position,
                                         "neutrino", NeutrinoTimingRate, composite_id, tick) >>)
           IN  /\ composite_particles' =
                      DictPut(composite_particles, composite_id, "neutron")
               /\ identities' = made.identities
               /\ coexistence_registry' = made.coexistence_registry
               /\ next_id' = next_id + 4
        /\ UNCHANGED <<tick, recruiters, echo_fields, detection_events,
                       conflict_resolutions, results_history, config, pc>>

NucleonNow == Nucleons(identities, coexistence_registry, composite_particles, next_id)

\* a call of process_beta_decay from outside the tick, for any id ever issued;
\* the caller passes the composite's position (for an id that is not a living
\* composite the position is never read)
BetaDecayCall(composite_id, neutron_position, sample) ==
    ProcessBetaDecay(NucleonNow, echo_fields, tick, composite_id, neutron_position, sample)

CallProcessBetaDecay ==
    \E composite_id \in 1..(next_id - 1), sample \in DecaySamples :
        \E neutron_position \in
              IF DictHas(composite_particles, composite_id)
              THEN {NeutronPosition(identities, composite_id)}
              ELSE {Center} :
            LET done == BetaDecayCall(composite_id, neutron_position, sample).state
            IN  /\ identities' = done.identities
                /\ coexistence_registry' = done.coexistence_registry
                /\ composite_particles' = done.composite_particles
                /\ next_id' = done.next_id
                /\ UNCHANGED <<tick, recruiters, echo_fields, detection_events,
                               conflict_resolutions, results_history, config, pc>>

\* the tick_data of the nucleon engine
TickDataNucleon(t, ids, summary, composites) ==
    [tick |-> t,
     identities |-> [k \in 1..Len(ids) |-> IdentitySummary(ids[k])],
     return_results |-> summary,
     detection_events |-> <<>>,
     conflict_resolutions |-> <<>>,
     composite_particles |-> composites]

\* the nucleon state after the nucleon step of advance_tick, given the samples
NucleonAfterPhysics(samples) ==
    LET reformed == CoreAfterReformation
        n == Nucleons(reformed.identities, coexistence_registry,
                      composite_particles, next_id)
    IN  IF config.enable_nucleon_internal_structure
        THEN ProcessNucleonPhysics(config, n, reformed.echo_fields, tick + 1, samples)
        ELSE n

\* advance_tick, samples[k] being the value np.random.random() returns for the
\* k-th composite of the tick
TickNucleon(samples) ==
    /\ LET phased == CoreAfterPhases
           reformed == CoreAfterReformation
           n == NucleonAfterPhysics(samples)
       IN  /\ tick' = tick + 1
           /\ identities' = n.identities
           /\ coexistence_registry' = n.coexistence_registry
           /\ composite_particles' = n.composite_particles
           /\ next_id' = n.next_id
           /\ recruiters' = reformed.recruiters
           /\ echo_fields' = ApplyEchoInheritance(config, reformed.echo_fields)
           /\ results_history' = Append(results_history,
                TickDataNucleon(tick + 1, n.identities,
                                ReturnSummary(phased.identities, CoreReturnResults),
                                Len(n.composite_particles)))
    /\ UNCHANGED <<detection_events, conflict_resolutions, config, pc>>

\* the sample vectors a tick may draw
SampleVectors == [1..Len(composite_particles) -> DecaySamples]

AdvanceTickNucleon ==
    /\ tick < MaxTicks
    /\ \E samples \in SampleVectors : TickNucleon(samples)

NextNucleon == CreateNeutronComposite \/ CallProcessBetaDecay \/ AdvanceTickNucleon

SpecNucleon == InitNucleon /\ [][NextNucleon]_vars

\* The run of run_simulation with a fair random source.  A fair source gives every
\* composite a sample at or below its decay probability in some tick; in a run of
\* MaxTicks ticks that tick is the last one at the latest.
FairSampleVectors ==
    IF tick + 1 = MaxTicks
    THEN {samples \in SampleVectors :
              \A k \in DOMAIN samples : samples[k] <= BetaDecayProbability(MaxTicks)}
    ELSE SampleVectors

AdvanceTickFair ==
    /\ tick < MaxTicks
    /\ \E samples \in FairSampleVectors : TickNucleon(samples)

NextNucleonFair == CreateNeutronComposite \/ CallProcessBetaDecay \/ AdvanceTickFair

\* run_simulation: while self.tick < max_ticks, advance_tick() is called; the
\* steps of NextNucleonFair that advance tick are the steps of AdvanceTickFair
RunSimulationStep == tick < MaxTicks /\ tick' = tick + 1

SpecNucleonFair ==
    InitNucleon /\ [][NextNucleonFair]_vars /\ WF_tick(RunSimulationStep)

-----------------------------------------------------------------------------
(* Properties of the nucleon engine (SpecNucleon) *)

PositionsInLattice(ids) ==
    \A k \in 1..Len(ids) : ids[k].position # NoPos => InLattice(ids[k].position)

\* C2: every living identity that has a position has it inside the lattice
\* after every advance_tick that starts with all positions inside the lattice,
\* decay products included.
C2_TickKeepsPositionsInLattice ==
    [][(tick' = tick + 1 /\ PositionsInLattice(identities))
          => PositionsInLattice(identities')]_vars

CompositeIds(composites) == Range(DictKeys(composites))

\* the identities of the next state that did not exist before
FreshIdentities == {k \in 1..Len(identities') : identities'[k].unique_id >= next_id}

HasFreshProduct(tag, position) ==
    \E k \in FreshIdentities :
        /\ identities'[k].is_decay_product
        /\ identities'[k].module_tag = tag
        /\ identities'[k].position = position

\* C6: a composite leaves composite_particles at most once and for good; in the
\* step in which it leaves, the identities bound to it are removed and exactly
\* three products (proton, electron, antineutrino) are added; and for an id
\* that is not in composite_particles process_beta_decay returns False and
\* changes no state.
C6_DecayIsTerminal ==
    /\ [](\A composite_id \in 1..(next_id - 1), position \in NucleonCells,
             sample \in DecaySamples :
             ~DictHas(composite_particles, composite_id) =>
                 BetaDecayCall(composite_id, position, sample)
                 = [occurred |-> FALSE, state |-> NucleonNow])
    /\ [][LET decayed == CompositeIds(composite_particles)
                         \ CompositeIds(composite_particles')
              bound == {k \in 1..Len(identities) :
                           identities[k].parent_composite_id \in decayed}
          IN  /\ \A id \in CompositeIds(composite_particles') :
                     id \in CompositeIds(composite_particles) \/ id >= next_id
              /\ \A k \in 1..Len(identities') :
                     identities'[k].parent_composite_id \notin decayed
              /\ {identities'[k].unique_id : k \in (1..Len(identities')) \ FreshIdentities}
                 = {identities[k].unique_id : k \in (1..Len(identities)) \ bound}
              /\ Cardinality({k \in FreshIdentities : identities'[k].is_decay_product})
                 = 3 * Cardinality(decayed)
              /\ \A id \in decayed :
                     LET position == NeutronPosition(identities, id)
                     IN  /\ HasFreshProduct(<<"F","P">>, ProtonPosition(position))
                         /\ HasFreshProduct(<<"F","E">>, ElectronPosition(position))
                         /\ HasFreshProduct(<<"A","N">>, AntineutrinoPosition(position))]_vars

\* a composite has decayed during a tick: its products live, its record is gone
C6_Witness ==
    /\ composite_particles = <<>>
    /\ tick >= 2
    /\ results_history[Len(results_history)].composite_particles = 0
    /\ results_history[Len(results_history) - 1].composite_particles = 1
    /\ Cardinality({k \in 1..Len(identities) : identities[k].is_decay_product}) = 3

\* the tick at which create_neutron_composite made the composite, as its
\* constituents record it
CompositeCreationTick(ids, composite_id) ==
    LET bound == SelectSeq(ids, LAMBDA i : i.parent_composite_id = composite_id)
    IN  bound[1].creation_tick

\* C12: in every tick with beta decay enabled, the decay probability applied
\* to a live composite is the decay law at the age t - t0 of that composite,
\* t0 being its creation tick, with the lifetime beta_decay_lifetime_ticks of
\* the configuration.
C12_DecayProbabilityFollowsAgeAndLifetime ==
    [][(/\ tick' = tick + 1
        /\ config.enable_nucleon_internal_structure
        /\ config.enable_beta_decay) =>
          \A composite_id \in CompositeIds(composite_particles) :
              BetaDecayProbability(tick + 1)
              = DecayLaw(config.beta_decay_lifetime_ticks,
                         (tick + 1) - CompositeCreationTick(identities, composite_id))]_vars

\* C13: with nucleon physics and beta decay enabled, in every tick every live
\* composite whose sample is not above the applied decay probability decays in
\* that tick: no feasibility or conservation check keeps it.
C13_DecayGatedOnlyByDraw ==
    [][(/\ tick' = tick + 1
        /\ config.enable_nucleon_internal_structure
        /\ config.enable_beta_decay) =>
          \A samples \in SampleVectors :
              TickNucleon(samples) =>
                  \A k \in 1..Len(composite_particles) :
                      samples[k] <= BetaDecayProbability(tick + 1) =>
                          /\ ~DictHas(composite_particles', composite_particles[k].key)
                          /\ \A n \in 1..Len(identities') :
                                identities'[n].parent_composite_id
                                # composite_particles[k].key]_vars

\* a composite in a cell without echo has decayed in the first tick after its
\* creation: its proton is at the cell, made in this tick
C13_Witness ==
    /\ tick = 1
    /\ composite_particles = <<>>
    /\ \E k \in 1..Len(identities) :
          /\ identities[k].module_tag = <<"F","P">>
          /\ identities[k].creation_tick = tick
          /\ identities[k].position = Origin
          /\ echo_fields[Origin] = 0
    /\ results_history[tick].composite_particles = 0

DecayProductsTagged(tag) ==
    {k \in 1..Len(identities) :
        identities[k].is_decay_product /\ identities[k].module_tag = tag}

\* no composite is left, no identity is bound to one, and the identities are the
\* decay products: one proton, one electron and one antineutrino for every three
\* constituents that were created
AllNeutronsDecayed ==
    /\ composite_particles = <<>>
    /\ \A k \in 1..Len(identities) :
          /\ identities[k].parent_composite_id = NoId
          /\ identities[k].is_decay_product
    /\ 3 * Cardinality(DecayProductsTagged(<<"F","P">>)) = Len(identities)
    /\ 3 * Cardinality(DecayProductsTagged(<<"F","E">>)) = Len(identities)
    /\ 3 * Cardinality(DecayProductsTagged(<<"A","N">>)) = Len(identities)

\* C14: with nucleon physics and beta decay enabled and a fair random source,
\* every neutron composite eventually decays: from some point on
\* composite_particles is empty and every three constituents have been replaced
\* by the three decay products, once.
C14_EveryNeutronDecays ==
    (config.enable_nucleon_internal_structure /\ config.enable_beta_decay)
        => <>[]AllNeutronsDecayed

\* the run has ended, a composite was created during it (its constituents had
\* ids 2..4) and what is left of it are its three decay products
C14_Witness ==
    /\ tick = MaxTicks
    /\ config.enable_beta_decay
    /\ next_id > 4
    /\ Len(identities) = 3
    /\ AllNeutronsDecayed
    /\ \A k \in 1..Len(identities) : identities[k].creation_tick = MaxTicks

-----------------------------------------------------------------------------
(* The nucleon engine: decay of a composite that is not fully initialized *)

\* which of the three constituent patterns of a NeutronTimingPattern are set:
\* initialize_constituents may be given None, or not be called at all
NeutronPatterns ==
    [proton_core_pattern : BOOLEAN, electron_constituent_pattern : BOOLEAN,
     neutrino_constituent_pattern : BOOLEAN]

\* all([proton_core_pattern, electron_constituent_pattern, neutrino_constituent_pattern])
AllInitialized(pattern) ==
    /\ pattern.proton_core_pattern
    /\ pattern.electron_constituent_pattern
    /\ pattern.neutrino_constituent_pattern

\* test_beta_decay_feasibility(...)["feasible"] of a pattern: without the proton
\* or the electron pattern it is False ("constituents_not_initialized")
TestBetaDecayFeasibilityOf(pattern, echo_field_strength) ==
    IF pattern.proton_core_pattern /\ pattern.electron_constituent_pattern
    THEN TestBetaDecayFeasibility(echo_field_strength)
    ELSE FALSE

\* process_beta_decay for a composite registered with its pattern: what the call
\* gives its caller (the value returned, or the exception that leaves it) and
\* the state after it
ProcessBetaDecayOf(n, ef, t, composite_id, neutron_position, sample) ==
    IF ~DictHas(n.composite_particles, composite_id)
        THEN [outcome |-> "False", state |-> n]
    ELSE IF ~TestBetaDecayFeasibilityOf(DictGet(n.composite_particles, composite_id),
                                        ef[neutron_position])
        THEN [outcome |-> "False", state |-> n]
    ELSE IF sample > BetaDecayProbability(t)
        THEN [outcome |-> "False", state |-> n]
    ELSE IF ~AllInitialized(DictGet(n.composite_particles, composite_id))
        THEN [outcome |-> "ValueError", state |-> n]
    ELSE [outcome |-> "True",
          state |-> ProcessBetaDecay(n, ef, t, composite_id, neutron_position,
                                     sample).state]

\* In this specification a composite is registered with its pattern, and pc
\* holds the last call of process_beta_decay: the composite, the pattern it had
\* and what the call gave its caller.
NoCall == [at |-> "idle", composite_id |-> NoId, outcome |-> "none"]

InitMalformed ==
    /\ tick = 0
    /\ identities = <<>>
    /\ recruiters = [p \in RecruiterCells |-> ScenarioRecruiter]
    /\ echo_fields = ScenarioEcho
    /\ coexistence_registry = <<>>
    /\ detection_events = <<>>
    /\ conflict_resolutions = <<>>
    /\ composite_particles = <<>>
    /\ results_history = <<>>
    /\ config \in {[ConfigDefaults EXCEPT !.enable_nucleon_internal_structure = TRUE,
                                          !.enable_beta_decay = b,
                                          !.beta_decay_lifetime_ticks = l] :
                      b \in BOOLEAN,
                      l \in {ConfigBetaDecayLifetime, TrialBetaDecayLifetime}}
    /\ next_id = 1
    /\ pc = NoCall

\* a caller registers a NeutronTimingPattern with the patterns it has, over
\* constituents made as create_neutron_composite makes them
RegisterNeutron ==
    \E position \in NucleonCells, pattern \in NeutronPatterns :
        /\ Len(identities) < 3 * MaxComposites
        /\ LET composite_id == next_id
               made == RegisterAll(identities, coexistence_registry,
                          << Constituent(next_id + 1, <<"P","C">>, 500, 50, position,
                                         "proton", ProtonTimingRate, composite_id, tick),
                             Constituent(next_id + 2, <<"B","E">>, 250, 30, position,
                                         "electron", ElectronTimingRate, composite_id, tick),
                             Constituent(next_id + 3, <<"E","N">>, 100, 10, position,
                                         "neutrino", NeutrinoTimingRate, composite_id, tick) >>)
           IN  /\ composite_particles' = DictPut(composite_particles, composite_id, pattern)
               /\ identities' = made.identities
               /\ coexistence_registry' = made.coexistence_registry
               /\ next_id' = next_id + 4
        /\ UNCHANGED <<tick, recruiters, echo_fields, detection_events,
                       conflict_resolutions, results_history, config, pc>>

\* process_beta_decay(composite_id, position of the composite)
AttemptDecay ==
    \E k \in 1..Len(composite_particles), sample \in DecaySamples :
        LET composite_id == composite_particles[k].key
            done == ProcessBetaDecayOf(NucleonNow, echo_fields, tick, composite_id,
                                       NeutronPosition(identities, composite_id), sample)
        IN  /\ identities' = done.state.identities
            /\ coexistence_registry' = done.state.coexistence_registry
            /\ composite_particles' = done.state.composite_particles
            /\ next_id' = done.state.next_id
            /\ pc' = [at |-> "returned", composite_id |-> composite_id,
                      outcome |-> done.outcome]
            /\ UNCHANGED <<tick, recruiters, echo_fields, detection_events,
                           conflict_resolutions, results_history, config>>

NextMalformed == RegisterNeutron \/ AttemptDecay

SpecMalformed == InitMalformed /\ [][NextMalformed]_vars

\* C21: a decay attempted on a composite whose three constituent patterns are
\* not all initialized ends in an error outcome that its caller can tell from a
\* decay that did not occur, produces no products and leaves identities and
\* composite_particles as they were.
C21_UninitializedDecayFailsDistinguishably ==
    [][\A k \in 1..Len(composite_particles) :
          (/\ ~AllInitialized(composite_particles[k].val)
           /\ pc'.at = "returned"
           /\ pc'.composite_id = composite_particles[k].key)
          => /\ pc'.outcome = "ValueError"
             /\ identities' = identities
             /\ composite_particles' = composite_particles]_vars

-----------------------------------------------------------------------------
(* The detection engine, src/current_monolith/versions/001: particle modules *)

NodePattern(relative_position, timing_rate, phase_offset, role) ==
    [relative_position |-> relative_position, timing_rate |-> timing_rate,
     phase_offset |-> phase_offset, role |-> role]

\* ParticleLibrary.photon_free_space / electron_ground_state: node_patterns
NodePatterns(kind) ==
    IF kind = "photon"
    THEN << NodePattern(<<0,0,0>>, 1000, 0, "core"),
            NodePattern(<<-1,0,0>>, 800, 250, "standard"),
            NodePattern(<<-2,0,0>>, 600, 500, "standard"),
            NodePattern(<<1,0,0>>, 900, -100, "propagation_front") >>
    ELSE << NodePattern(<<0,0,0>>, 1000, 0, "core"),
            NodePattern(<<1,0,0>>, 700, 0, "standard"),
            NodePattern(<<-1,0,0>>, 700, 0, "standard"),
            NodePattern(<<0,1,0>>, 700, 0, "standard"),
            NodePattern(<<0,-1,0>>, 700, 0, "standard"),
            NodePattern(<<0,0,1>>, 700, 0, "standard"),
            NodePattern(<<0,0,-1>>, 700, 0, "standard"),
            NodePattern(<<2,0,0>>, 300, 0, "standard"),
            NodePattern(<<-2,0,0>>, 300, 0, "standard"),
            NodePattern(<<0,2,0>>, 300, 0, "standard"),
            NodePattern(<<0,-2,0>>, 300, 0, "standard") >>

\* ancestry_signature of the module: PF = PHOTON_FREE, E1S = ELECTRON_1S
AncestrySignature(kind) ==
    IF kind = "photon" THEN <<"P","F">> ELSE <<"E","1","S">>

\* the Identity add_particle_module makes for a photon_free_space(direction)
PhotonFreeSpace(id, direction, position) ==
    [Identity(id, <<"p","h","o","t","o","n">>, AncestrySignature("photon"), 0, 200, position)
        EXCEPT !.particle_module = "photon", !.master_phase = 0,
               !.master_delta_theta = 200, !.velocity = direction,
               !.context = "free_space", !.triggers_detection = TRUE]

\* the Identity add_particle_module makes for an electron_ground_state()
ElectronGroundState(id, position) ==
    [Identity(id, <<"e","l","e","c","t","r","o","n">>, AncestrySignature("electron"),
              0, 50, position)
        EXCEPT !.particle_module = "electron", !.master_phase = 0,
               !.master_delta_theta = 50, !.context = "atomic_orbital",
               !.energy_level = "1s"]

\* Identity.update_phase of the 001 engine: the module's master phase advances too
M1UpdatePhase(i) ==
    LET j == IdentityUpdatePhase(i)
    IN  IF i.particle_module # "none"
        THEN [j EXCEPT !.master_phase = (i.master_phase + i.master_delta_theta) % PhaseScale]
        ELSE j

\* ParticleModule.get_affected_positions
GetAffectedPositions(kind, center_position) ==
    LET pats == NodePatterns(kind)
    IN  [k \in 1..Len(pats) |->
            <<center_position[1] + pats[k].relative_position[1],
              center_position[2] + pats[k].relative_position[2],
              center_position[3] + pats[k].relative_position[3]>>]

DefaultRecruiterRate == 100    \* Recruiter.delta_theta = 0.1
TimingInfluence == 50          \* timing_rate * 50.0

\* the engine's lattice and bookkeeping as one value
World(ids, recs, ef, reg, events, resolutions) ==
    [identities |-> ids, recruiters |-> recs, echo_fields |-> ef,
     coexistence_registry |-> reg, detection_events |-> events,
     conflict_resolutions |-> resolutions]

\* the loop over node_patterns of add_particle_module (additive = FALSE) and of
\* _apply_particle_to_position (additive = TRUE), from the k-th pattern on
RECURSIVE ApplyPatternsFrom(_, _, _, _, _, _)
ApplyPatternsFrom(w, i, center_position, additive, pats, k) ==
    IF k > Len(pats) THEN w
    ELSE LET pos == GetAffectedPositions(i.particle_module, center_position)[k]
             timing_influence == pats[k].timing_rate * TimingInfluence
             echoed == [w EXCEPT !.echo_fields = FunPut(@, pos,
                           IF additive THEN w.echo_fields[pos] + timing_influence
                                       ELSE Max2(w.echo_fields[pos], timing_influence))]
             next == IF pats[k].role = "core"
                     THEN [echoed EXCEPT !.recruiters =
                              FunPut(@, pos,
                                     Recruiter(i.master_phase + pats[k].phase_offset,
                                               AncestrySignature(i.particle_module),
                                               DefaultRecruiterRate))]
                     ELSE echoed
         IN  ApplyPatternsFrom(IF InLattice(pos) THEN next ELSE w,
                               i, center_position, additive, pats, k + 1)

\* add_particle_module
AddParticleModule(w, i) ==
    LET patterned == ApplyPatternsFrom(w, i, i.position, FALSE,
                                       NodePatterns(i.particle_module), 1)
    IN  [patterned EXCEPT !.identities = Append(@, i)]

\* get_coexisting_identities, as indices into w.identities
GetCoexistingIdentities(w, position) ==
    LET registered == IF DictHas(w.coexistence_registry, position)
                      THEN DictGet(w.coexistence_registry, position) ELSE <<>>
        living == SelectSeq(registered,
                     LAMBDA id : \E k \in 1..Len(w.identities) : w.identities[k].unique_id = id)
    IN  [n \in 1..Len(living) |->
            CHOOSE k \in 1..Len(w.identities) : w.identities[k].unique_id = living[n]]

\* the loop over affected positions of _remove_particle_from_position
RECURSIVE ClearPositionsFrom(_, _, _)
ClearPositionsFrom(w, positions, k) ==
    IF k > Len(positions) THEN w
    ELSE LET pos == positions[k]
         IN  ClearPositionsFrom(
                IF InLattice(pos)
                THEN [w EXCEPT !.echo_fields = FunPut(@, pos, FloorDiv(w.echo_fields[pos], 2)),
                               !.recruiters = FunDel(@, pos)]
                ELSE w,
                positions, k + 1)

\* _remove_particle_from_position
RemoveParticleFromPosition(w, i, position) ==
    LET reg == w.coexistence_registry
        removed == IF DictHas(reg, position)
                   THEN LET left == ListRemove(DictGet(reg, position), i.unique_id)
                        IN  IF left = <<>> THEN DictDel(reg, position)
                                           ELSE DictPut(reg, position, left)
                   ELSE reg
        w1 == [w EXCEPT !.coexistence_registry = removed]
    IN  IF i.particle_module # "none"
        THEN ClearPositionsFrom(w1, GetAffectedPositions(i.particle_module, position), 1)
        ELSE w1

\* _apply_particle_to_position, for the k-th identity
ApplyParticleToPosition(w, k, position) ==
    LET reg == RegistryRegister(w.coexistence_registry, position, w.identities[k].unique_id)
        i == IdentityRegister(reg, position, w.identities[k])
        w1 == [w EXCEPT !.coexistence_registry = reg, !.identities = SeqPut(@, k, i)]
    IN  IF i.particle_module # "none"
        THEN ApplyPatternsFrom(w1, i, position, TRUE, NodePatterns(i.particle_module), 1)
        ELSE w1

-----------------------------------------------------------------------------
(* The detection engine: detection events and their resolution *)

PhaseSeparation == 20          \* phase_offset = i * 0.02

Digits == <<"1", "2", "3", "4", "5", "6", "7", "8", "9">>

\* variant for mutation analysis: the count starts with the first identity
MutationTagCountingFirst(mark, i) == <<mark, Digits[i + 1]>>

\* f"_{i}" and f"*{i}" for the i a scenario of this size reaches
MutationTag(mark, i) == <<mark, Digits[i]>>

\* create_detection_event: affected_identities are all the living identities
\* registered at the position
CreateDetectionEvent(w, event_type, position, triggering_particle, t) ==
    LET affected == GetCoexistingIdentities(w, position)
    IN  [w EXCEPT !.detection_events = Append(@,
            [event_type |-> event_type,
             position |-> position,
             tick |-> t,
             triggering_particle |-> triggering_particle,
             affected_identities |->
                 [n \in 1..Len(affected) |-> w.identities[affected[n]].unique_id],
             resolution_method |-> NoMethod])]

\* Identity.apply_symbolic_mutation
ApplySymbolicMutation(i, mutation_type, mutation_tag) ==
    LET changed ==
            IF mutation_type = "ancestry_append"
                THEN [i EXCEPT !.ancestry = @ \o mutation_tag]
            ELSE IF mutation_type = "identity_suffix"
                THEN [i EXCEPT !.module_tag = @ \o mutation_tag]
            ELSE i
    IN  [changed EXCEPT !.mutation_history = @ + 1, !.is_mutated = TRUE]

\* variant for mutation analysis: the resolution takes the identity off its cell
ResolveOneDisplaced(i, resolution_method, n) == [i EXCEPT !.position = NoPos]

\* what resolve_detection_conflict does to the n-th affected identity (n >= 2)
ResolveOne(i, resolution_method, n) ==
    IF resolution_method = "symbolic_mutation"
        THEN ApplySymbolicMutation(i, "ancestry_append", MutationTag("_", n - 1))
    ELSE IF resolution_method = "identity_rename"
        THEN ApplySymbolicMutation(i, "identity_suffix", MutationTag("*", n - 1))
    ELSE IF resolution_method = "phase_separation"
        THEN [i EXCEPT !.theta = (@ + (n - 1) * PhaseSeparation) % PhaseScale]
    ELSE i

\* resolve_detection_conflict on the event created last
ResolveDetectionConflict(w, cfg, t) ==
    LET e == Len(w.detection_events)
        event == w.detection_events[e]
        rank(i) == IF \E n \in 1..Len(event.affected_identities) :
                          event.affected_identities[n] = i.unique_id
                   THEN CHOOSE n \in 1..Len(event.affected_identities) :
                          event.affected_identities[n] = i.unique_id
                   ELSE 0
        resolution_method == cfg.default_conflict_resolution
        resolved(i) ==
            IF rank(i) = 0 THEN i
            ELSE [(IF rank(i) >= 2 THEN ResolveOne(i, resolution_method, rank(i)) ELSE i)
                     EXCEPT !.conflict_resolution_applied = resolution_method]
        mutated == IF resolution_method \in
                        {"symbolic_mutation", "identity_rename", "phase_separation"}
                   THEN Len(event.affected_identities) - 1 ELSE 0
    IN  IF Len(event.affected_identities) < 2 THEN w
        ELSE [w EXCEPT
                !.identities = [k \in 1..Len(w.identities) |-> resolved(w.identities[k])],
                !.detection_events =
                    SeqPut(@, e, [event EXCEPT !.resolution_method = resolution_method]),
                !.conflict_resolutions = Append(@,
                    [method |-> resolution_method, tick |-> t,
                     position |-> event.position,
                     affected_count |-> Len(event.affected_identities),
                     mutations |-> [n \in 1..mutated |-> event.affected_identities[n + 1]]])]

\* the scan of check_detection_required from the n-th coexisting identity on,
\* seen being the unresolved identities scanned so far
RECURSIVE DetectionScanFrom(_, _, _, _)
DetectionScanFrom(w, coexisting, n, seen) ==
    IF n > Len(coexisting) THEN FALSE
    ELSE LET identity == w.identities[coexisting[n]]
         IN  IF identity.conflict_resolution_applied = NoMethod
             THEN \/ \E m \in 1..Len(seen) :
                        /\ identity.ancestry = seen[m].ancestry
                        /\ Abs(identity.theta - seen[m].theta) < Epsilon
                  \/ DetectionScanFrom(w, coexisting, n + 1, Append(seen, identity))
             ELSE DetectionScanFrom(w, coexisting, n + 1, seen)

\* check_detection_required
CheckDetectionRequired(w, position) ==
    LET coexisting == GetCoexistingIdentities(w, position)
    IN  Len(coexisting) > 1 /\ DetectionScanFrom(w, coexisting, 1, <<>>)

\* the loop of process_detection_events over positions_to_check
RECURSIVE DetectionFrom(_, _, _, _, _)
DetectionFrom(w, cfg, t, positions_to_check, k) ==
    IF k > Len(positions_to_check) THEN w
    ELSE DetectionFrom(
            IF CheckDetectionRequired(w, positions_to_check[k])
            THEN LET created == CreateDetectionEvent(w, "measurement_probe",
                                                     positions_to_check[k], NoId, t)
                 IN  IF cfg.detection_triggers_mutation
                     THEN ResolveDetectionConflict(created, cfg, t)
                     ELSE created
            ELSE w,
            cfg, t, positions_to_check, k + 1)

M1ProcessDetectionEvents(w, cfg, t) ==
    DetectionFrom(w, cfg, t, DictKeys(w.coexistence_registry), 1)

\* move_particle for the k-th identity
MoveParticle(w, cfg, t, k) ==
    LET i == w.identities[k]
        new_pos == <<i.position[1] + i.velocity[1], i.position[2] + i.velocity[2],
                     i.position[3] + i.velocity[3]>>
        removed == RemoveParticleFromPosition(w, i, i.position)
        placed == ApplyParticleToPosition(
                      [removed EXCEPT !.identities =
                                  SeqPut(@, k, [i EXCEPT !.position = new_pos])],
                      k, new_pos)
    IN  IF i.particle_module # "none" /\ i.velocity # <<>> /\ InLattice(new_pos)
        THEN IF /\ i.triggers_detection
                /\ cfg.enable_detection_events
                /\ Len(GetCoexistingIdentities(placed, new_pos)) > 1
             THEN CreateDetectionEvent(placed, "particle_collision", new_pos,
                                       i.unique_id, t)
             ELSE placed
        ELSE w

RECURSIVE MoveFrom(_, _, _, _)
MoveFrom(w, cfg, t, k) ==
    IF k > Len(w.identities) THEN w
    ELSE MoveFrom(MoveParticle(w, cfg, t, k), cfg, t, k + 1)

-----------------------------------------------------------------------------
(* The detection engine: eligibility, passive conflicts, reformation *)

\* count_mismatch_tags: zip() stops at the shorter ancestry
CountMismatchTags(ancestry1, ancestry2) ==
    LET common == Min2(Len(ancestry1), Len(ancestry2))
    IN  Abs(Len(ancestry1) - Len(ancestry2))
        + Cardinality({n \in 1..common : ancestry1[n] # ancestry2[n]})

\* variant for mutation analysis: no smoothing
ApplySymbolicSmoothingOff(mismatch) == mismatch

ApplySymbolicSmoothing(mismatch) ==
    IF mismatch = 4 THEN 2 ELSE IF mismatch = 3 THEN 2 ELSE mismatch

CalculateAncestryMatch(cfg, t, ancestry_identity, ancestry_recruiter) ==
    IF ~cfg.ancestry_required THEN TRUE
    ELSE IF cfg.smoothing_enabled /\ t >= SmoothingTick
    THEN ApplySymbolicSmoothing(CountMismatchTags(ancestry_identity, ancestry_recruiter))
         <= SmoothingThreshold
    ELSE ancestry_identity = ancestry_recruiter

M1EvaluateReturnEligibility(cfg, w, t, i) ==
    IF ~HasRecruiter(w.recruiters, i)
    THEN [return_allowed |-> FALSE, evaluation |-> [reason |-> "no_recruiter"]]
    ELSE LET recruiter == w.recruiters[i.position]
             phase_match == CalculatePhaseMatch(i.theta, recruiter.theta_recruiter)
             ancestry_match == CalculateAncestryMatch(cfg, t, i.ancestry,
                                                      recruiter.ancestry_recruiter)
             echo_match == CalculateEchoMatch(cfg, w.echo_fields, i.position)
         IN  [return_allowed |-> phase_match /\ ancestry_match /\ echo_match,
              evaluation |-> [phase_match |-> phase_match,
                              ancestry_match |-> ancestry_match,
                              echo_match |-> echo_match,
                              rho_hybrid |-> RhoHybrid(cfg, w.echo_fields, i.position),
                              phase_diff |-> Abs(i.theta - recruiter.theta_recruiter)
                                             % PhaseScale]]

\* variant for mutation analysis: the passive-coexistence switch is ignored
CheckConflictAlways(cfg, identity1, identity2) ==
    /\ identity1.position = identity2.position
    /\ identity1.ancestry = identity2.ancestry
    /\ PhaseDiff(identity1.theta, identity2.theta) < Epsilon

CheckConflictPassive(cfg, identity1, identity2) ==
    /\ ~cfg.enable_passive_coexistence
    /\ identity1.position = identity2.position
    /\ identity1.ancestry = identity2.ancestry
    /\ PhaseDiff(identity1.theta, identity2.theta) < Epsilon

\* check_all_passive_conflicts(identity) is not empty, for the k-th identity
HasPassiveConflict(cfg, ids, k) ==
    \E n \in 1..Len(ids) : ids[n] # ids[k] /\ CheckConflictPassive(cfg, ids[k], ids[n])

\* execute_identity_reformation of the 001 engine, for the k-th identity
M1ExecuteIdentityReformation(w, k) ==
    LET i == w.identities[k]
    IN  IF i.position \in DOMAIN w.recruiters
        THEN LET recruiter == w.recruiters[i.position]
                 coexisting == GetCoexistingIdentities(w, i.position)
                 reformed == [i EXCEPT !.theta = recruiter.theta_recruiter,
                                       !.ancestry = recruiter.ancestry_recruiter,
                                       !.return_status = IF Len(coexisting) > 1
                                                         THEN "coexisting" ELSE "complete"]
             IN  [w EXCEPT !.identities = SeqPut(@, k, reformed),
                           !.recruiters = FunPut(@, i.position,
                                                 AddReturnedIdentity(recruiter, i)),
                           !.echo_fields = FunPut(@, i.position,
                                                  w.echo_fields[i.position] + Reinforcement)]
        ELSE w

\* the reformation loop of advance_tick, from the k-th result on
RECURSIVE M1ReformFrom(_, _, _, _)
M1ReformFrom(w, cfg, results, k) ==
    IF k > Len(results) THEN w
    ELSE M1ReformFrom(
            IF results[k].return_allowed
            THEN IF ~HasPassiveConflict(cfg, w.identities, k)
                 THEN M1ExecuteIdentityReformation(w, k)
                 ELSE [w EXCEPT !.identities =
                          SeqPut(@, k, [w.identities[k] EXCEPT !.return_status = "failed"])]
            ELSE w,
            cfg, results, k + 1)

-----------------------------------------------------------------------------
(* The detection engine: particle interactions *)

\* check_particle_interaction is not None
CanAbsorb(identity1, identity2) ==
    /\ identity1.particle_module = "photon"
    /\ identity2.particle_module = "electron"
    /\ identity2.context = "atomic_orbital"

\* the interactions process_particle_interactions collects, in loop order
Interactions(ids) ==
    LET pairs == PairsOf(Len(ids))
        all == [r \in 1..Len(pairs) |->
                   [absorbed |-> ids[pairs[r][1]], absorber |-> ids[pairs[r][2]]]]
    IN  SelectSeq(all, LAMBDA x :
            /\ x.absorbed.particle_module # "none"
            /\ x.absorber.particle_module # "none"
            /\ x.absorbed.position = x.absorber.position
            /\ CanAbsorb(x.absorbed, x.absorber))

RECURSIVE InteractionEventsFrom(_, _, _, _)
InteractionEventsFrom(w, found, t, k) ==
    IF k > Len(found) THEN w
    ELSE InteractionEventsFrom(
            CreateDetectionEvent(w, "photon_interaction", found[k].absorbed.position,
                                 found[k].absorbed.unique_id, t),
            found, t, k + 1)

\* update_particle_energy_state: master_delta_theta *= 1.2
UpdateParticleEnergyState(i) ==
    [i EXCEPT !.master_delta_theta = FloorDiv(@ * 12, 10)]

\* execute_interaction for absorptions, from the k-th on; raised tells that
\* identities.remove(absorbed) did not find the identity (ValueError)
RECURSIVE ExecuteInteractionsFrom(_, _, _)
ExecuteInteractionsFrom(w, found, k) ==
    IF k > Len(found) THEN [world |-> w, raised |-> FALSE]
    ELSE LET absorbed == found[k].absorbed
             living(id) == \E n \in 1..Len(w.identities) : w.identities[n].unique_id = id
             without == [w EXCEPT !.identities =
                            SelectSeq(@, LAMBDA i : i.unique_id # absorbed.unique_id)]
             cleared == RemoveParticleFromPosition(without, absorbed, absorbed.position)
             excited(i) == IF i.unique_id = found[k].absorber.unique_id
                           THEN UpdateParticleEnergyState(
                                   [i EXCEPT !.energy_level = "excited_1",
                                             !.context = "transition_state"])
                           ELSE i
         IN  IF ~living(absorbed.unique_id) THEN [world |-> w, raised |-> TRUE]
             ELSE ExecuteInteractionsFrom(
                     [cleared EXCEPT !.identities =
                         [n \in 1..Len(cleared.identities) |-> excited(cleared.identities[n])]],
                     found, k + 1)

ProcessParticleInteractions(w, cfg, t) ==
    LET found == Interactions(w.identities)
    IN  ExecuteInteractionsFrom(
            IF cfg.enable_detection_events THEN InteractionEventsFrom(w, found, t, 1) ELSE w,
            found, 1)

-----------------------------------------------------------------------------
(* The detection engine: scenarios and advance_tick *)

\* a scenario of the detection engine: a recruiter and a strong echo at the far
\* end of the first lattice row; photons start at the near end and travel to it
M1Echo == [p \in Lattice |-> IF p = Far THEN 80 * Milli ELSE 0]

\* (enable_passive_coexistence, default_conflict_resolution) of the scenarios
M1Configs ==
    {[ConfigDefaults EXCEPT !.enable_passive_coexistence = c[1],
                            !.default_conflict_resolution = c[2]] :
        c \in {<<TRUE, "symbolic_mutation">>, <<TRUE, "identity_rename">>,
               <<TRUE, "phase_separation">>, <<FALSE, "symbolic_mutation">>}}

Init ==
    /\ tick = 0
    /\ identities = <<>>
    /\ recruiters = [p \in {Far} |-> ScenarioRecruiter]
    /\ echo_fields = M1Echo
    /\ coexistence_registry = <<>>
    /\ detection_events = <<>>
    /\ conflict_resolutions = <<>>
    /\ composite_particles = <<>>
    /\ results_history = <<>>
    /\ config \in M1Configs
    /\ next_id = 1
    /\ pc = "ready"

WorldNow == World(identities, recruiters, echo_fields, coexistence_registry,
                  detection_events, conflict_resolutions)

\* the engine takes the value w
Becomes(w) ==
    /\ identities' = w.identities
    /\ recruiters' = w.recruiters
    /\ echo_fields' = w.echo_fields
    /\ coexistence_registry' = w.coexistence_registry
    /\ detection_events' = w.detection_events
    /\ conflict_resolutions' = w.conflict_resolutions

\* identities.append(identity); register_coexistence(identity.position, identity),
\* before the run or between two ticks
AddRegistered ==
    \E pr \in {"match", "phase"} :
        LET i == Identity(next_id, <<"T">>, Profiles[pr].ancestry,
                          Profiles[pr].theta, Profiles[pr].delta_theta, Far)
            reg == RegistryRegister(coexistence_registry, i.position, i.unique_id)
        IN  /\ pc = "ready"
            /\ tick < MaxModuleTicks
            /\ Len(identities) < MaxParticles
            /\ coexistence_registry' = reg
            /\ identities' = Append(identities, IdentityRegister(reg, i.position, i))
            /\ next_id' = next_id + 1
            /\ UNCHANGED <<tick, recruiters, echo_fields, detection_events,
                           conflict_resolutions, composite_particles, results_history,
                           config, pc>>

\* add_particle_module(photon_free_space(direction = (1, 0, 0)), position)
AddPhoton ==
    /\ pc = "ready" /\ tick = 0
    /\ Len(identities) < MaxParticles
    /\ Becomes(AddParticleModule(WorldNow, PhotonFreeSpace(next_id, <<1, 0, 0>>, Origin)))
    /\ next_id' = next_id + 1
    /\ UNCHANGED <<tick, composite_particles, results_history, config, pc>>

\* add_particle_module(electron_ground_state(), position)
AddElectronGroundState ==
    /\ pc = "ready" /\ tick = 0
    /\ Len(identities) < MaxParticles
    /\ Becomes(AddParticleModule(WorldNow, ElectronGroundState(next_id, Far)))
    /\ next_id' = next_id + 1
    /\ UNCHANGED <<tick, composite_particles, results_history, config, pc>>

\* advance_tick up to the evaluation loop: phases, echo decay, particle moves
M1AfterMoves ==
    MoveFrom(World([k \in 1..Len(identities) |-> M1UpdatePhase(identities[k])],
                   AdvanceRecruiters(recruiters), ApplyEchoDecay(echo_fields),
                   coexistence_registry, detection_events, conflict_resolutions),
             config, tick + 1, 1)

M1ReturnResults ==
    LET w == M1AfterMoves
    IN  [k \in 1..Len(w.identities) |->
            M1EvaluateReturnEligibility(config, w, tick + 1, w.identities[k])]

\* ... the reformation loop
M1AfterReformation == M1ReformFrom(M1AfterMoves, config, M1ReturnResults, 1)

\* ... the detection step
M1AfterDetection ==
    IF config.enable_detection_events
    THEN M1ProcessDetectionEvents(M1AfterReformation, config, tick + 1)
    ELSE M1AfterReformation

\* ... and the particle interactions
M1AfterInteractions == ProcessParticleInteractions(M1AfterDetection, config, tick + 1)

M1IdentitySummary(i) ==
    [unique_id |-> i.unique_id, module_tag |-> i.module_tag, ancestry |-> i.ancestry,
     theta |-> i.theta, position |-> i.position, return_status |-> i.return_status,
     tick_memory |-> i.tick_memory, is_mutated |-> i.is_mutated,
     coexisting_with |-> i.coexisting_with,
     conflict_resolution |-> i.conflict_resolution_applied]

EventSummary(e) ==
    [type |-> e.event_type, position |-> e.position,
     affected_count |-> Len(e.affected_identities),
     resolution_method |-> e.resolution_method,
     triggering_particle |-> e.triggering_particle]

LastTen(s) == SubSeq(s, Max2(1, Len(s) - 9), Len(s))    \* s[-10:]

\* the tick_data of the 001 engine; its registry entry shares the live lists
\* and is not part of the value recorded here
M1TickData(t, w, summary) ==
    LET current == SelectSeq(w.detection_events, LAMBDA e : e.tick = t)
    IN  [tick |-> t,
         identities |-> [k \in 1..Len(w.identities) |-> M1IdentitySummary(w.identities[k])],
         return_results |-> summary,
         detection_events |-> [k \in 1..Len(current) |-> EventSummary(current[k])],
         conflict_resolutions |-> LastTen(w.conflict_resolutions)]

\* the end of advance_tick: a ValueError of move_particle leaves the method with
\* what the tick had done so far; otherwise echo inheritance, record_tick_results
M1CompleteTick(done, summary) ==
    IF done.raised
    THEN /\ Becomes(done.world)
         /\ pc' = "raised"
         /\ UNCHANGED results_history
    ELSE /\ Becomes([done.world EXCEPT !.echo_fields = ApplyEchoInheritance(config, @)])
         /\ pc' = pc
         /\ results_history' = Append(results_history,
                                      M1TickData(tick + 1, done.world, summary))

AdvanceTick ==
    /\ pc = "ready"
    /\ tick < MaxModuleTicks
    /\ tick' = tick + 1
    /\ M1CompleteTick(M1AfterInteractions,
                      ReturnSummary(M1AfterMoves.identities, M1ReturnResults))
    /\ UNCHANGED <<composite_particles, config, next_id>>

Next == AddRegistered \/ AddPhoton \/ AddElectronGroundState \/ AdvanceTick

Spec == Init /\ [][Next]_vars

-----------------------------------------------------------------------------
(* Properties of the detection engine (Spec) *)

\* the identity of the next state that has the unique_id id, as a set of indices
Survivor(id) == {n \in 1..Len(identities') : identities'[n].unique_id = id}

\* the conflict resolutions the step adds
NewResolutions ==
    SubSeq(conflict_resolutions', Len(conflict_resolutions) + 1, Len(conflict_resolutions'))

\* the ids the resolutions of the step mutated or moved in phase
NewlyMutated == UNION {Range(NewResolutions[n].mutations) : n \in 1..Len(NewResolutions)}

\* C3: every identity's theta stays in [0, 1) through update_phase, reformation
\* and phase separation; update_phase computes (theta + delta_theta) mod 1, so
\* that theta = 0.95 with delta_theta = 0.1 becomes 0.05, and adds exactly one
\* to tick_memory.
C3_PhaseStaysInUnitInterval ==
    /\ [](\A k \in 1..Len(identities) :
             identities[k].theta >= 0 /\ identities[k].theta < PhaseScale)
    /\ [][tick' = tick + 1 =>
            LET results == M1ReturnResults
                mutated == NewlyMutated
            IN  \A k \in 1..Len(identities) : \A n \in Survivor(identities[k].unique_id) :
                    /\ identities'[n].tick_memory = identities[k].tick_memory + 1
                    /\ (/\ ~results[k].return_allowed
                        /\ identities[k].unique_id \notin mutated)
                       => identities'[n].theta
                          = (identities[k].theta + identities[k].delta_theta) % PhaseScale]_vars

\* after one tick: an identity started at 0.95 with delta_theta 0.1 is at 0.05,
\* a second one was moved on from there by phase separation, and a third one
\* was locked to the recruiter's phase
C3_Witness ==
    /\ tick = 1
    /\ \E a, b, c \in 1..Len(identities) :
          /\ identities[a].delta_theta = 100 /\ identities[a].theta = 50
          /\ identities[a].tick_memory = 1
          /\ identities[b].conflict_resolution_applied = "phase_separation"
          /\ identities[b].theta = 50 + PhaseSeparation
          /\ Far \in DOMAIN recruiters
          /\ identities[c].position = Far
          /\ identities[c].delta_theta = 50
          /\ identities[c].theta = recruiters[Far].theta_recruiter
          /\ identities[c].theta # (Profiles.match.theta + 50) % PhaseScale

\* two or more unresolved identities at p with equal ancestry and a phase
\* difference below epsilon
Qualifies(ids, p) ==
    \E k, n \in 1..Len(ids) :
        /\ k # n
        /\ ids[k].position = p /\ ids[n].position = p
        /\ ids[k].conflict_resolution_applied = NoMethod
        /\ ids[n].conflict_resolution_applied = NoMethod
        /\ ids[k].ancestry = ids[n].ancestry
        /\ Abs(ids[k].theta - ids[n].theta) < Epsilon

\* the events process_detection_events adds at p on the way from before to after
ProbesAt(before, after, p) ==
    {n \in Len(before.detection_events) + 1 .. Len(after.detection_events) :
        /\ after.detection_events[n].event_type = "measurement_probe"
        /\ after.detection_events[n].position = p}

\* C4: process_detection_events raises an event for a position only if two or
\* more unresolved identities at it have equal ancestry and a phase difference
\* below epsilon, and it raises exactly one event for every such position.
C4_OneEventPerQualifyingPosition ==
    [][(tick' = tick + 1 /\ config.enable_detection_events) =>
          LET before == M1AfterReformation
              after == M1ProcessDetectionEvents(before, config, tick + 1)
          IN  \A p \in Lattice :
                  /\ ProbesAt(before, after, p) # {} => Qualifies(before.identities, p)
                  /\ Qualifies(before.identities, p)
                     => Cardinality(ProbesAt(before, after, p)) = 1]_vars

\* C5: an identity marked resolved is left out of later detection scans (an
\* event at its position needs two unresolved identical identities) and no later
\* resolve_detection_conflict changes its ancestry, tag or phase.
C5_ResolvedIsNeverMutatedAgain ==
    [][(tick' = tick + 1 /\ config.enable_detection_events) =>
          LET before == M1AfterReformation
              after == M1ProcessDetectionEvents(before, config, tick + 1)
          IN  /\ \A p \in Lattice :
                    ProbesAt(before, after, p) # {} => Qualifies(before.identities, p)
              /\ \A k \in 1..Len(before.identities) :
                    before.identities[k].conflict_resolution_applied # NoMethod =>
                        /\ after.identities[k].ancestry = before.identities[k].ancestry
                        /\ after.identities[k].module_tag = before.identities[k].module_tag
                        /\ after.identities[k].theta = before.identities[k].theta]_vars

\* the k-th identity was reformed on the way from moved to reformed
Reformed(moved, reformed, k) ==
    LET i == reformed.identities[k]
        recruiter == moved.recruiters[i.position]
    IN  /\ i.return_status \in {"complete", "coexisting"}
        /\ i.theta = recruiter.theta_recruiter
        /\ i.ancestry = recruiter.ancestry_recruiter
        /\ i.unique_id \in Range(reformed.recruiters[i.position].returned_identities)

\* C10: with enable_passive_coexistence set, check_conflict_passive is false for
\* every pair of identities in every state and no status is ever Failed; in
\* every tick every return-allowed identity is reformed, and an ancestry or a
\* tag changes after the reformation loop only for an identity that a detection
\* resolution of the tick mutated.
C10_NoPassiveConflict ==
    /\ [](config.enable_passive_coexistence =>
             /\ \A k, n \in 1..Len(identities) :
                   k # n => ~CheckConflictPassive(config, identities[k], identities[n])
             /\ \A k \in 1..Len(identities) : identities[k].return_status # "failed")
    /\ [][(config.enable_passive_coexistence /\ tick' = tick + 1) =>
            LET moved == M1AfterMoves
                results == [k \in 1..Len(moved.identities) |->
                               M1EvaluateReturnEligibility(config, moved, tick + 1,
                                                           moved.identities[k])]
                reformed == M1ReformFrom(moved, config, results, 1)
                mutated == NewlyMutated
            IN  \A k \in 1..Len(identities) :
                    /\ results[k].return_allowed => Reformed(moved, reformed, k)
                    /\ reformed.identities[k].module_tag = identities[k].module_tag
                    /\ ~results[k].return_allowed =>
                          reformed.identities[k].ancestry = identities[k].ancestry
                    /\ \A n \in Survivor(identities[k].unique_id) :
                          (\/ identities'[n].module_tag # identities[k].module_tag
                           \/ identities'[n].ancestry # reformed.identities[k].ancestry)
                          => identities[k].unique_id \in mutated]_vars

\* with the switch set, two identities with equal ancestry and phase share a
\* position and both were reformed there
C10_Witness ==
    /\ config.enable_passive_coexistence
    /\ tick >= 1
    /\ \E k, n \in 1..Len(identities) :
          /\ k # n
          /\ CheckConflictAlways(config, identities[k], identities[n])
          /\ identities[k].return_status = "coexisting"
          /\ identities[n].return_status = "coexisting"
          /\ identities[k].position \in DOMAIN recruiters
          /\ {identities[k].unique_id, identities[n].unique_id}
             \subseteq Range(recruiters[identities[k].position].returned_identities)


\* the Trial 070 scenario: passive coexistence set, conflicts resolved by symbolic
\* mutation, and two identities with the recruiter's ancestry and a phase within
\* the tolerance registered at the recruiter's cell before the first tick, the
\* only identities of the run
Trial070 ==
    /\ config.enable_passive_coexistence
    /\ config.enable_detection_events
    /\ config.default_conflict_resolution = "symbolic_mutation"
    /\ next_id = 3
    /\ tick >= 1
    /\ Len(results_history[1].identities) = 2
    /\ \A k \in 1..Len(identities) :
          /\ identities[k].position = Far
          /\ identities[k].delta_theta = Profiles["match"].delta_theta

\* C15: in the Trial 070 scenario, after every tick both identities exist with
\* status Coexisting and no detection event has been produced.
C15_Trial070StaysCoexisting ==
    Trial070 =>
        /\ Len(identities) = 2
        /\ \A k \in 1..Len(identities) : identities[k].return_status = "coexisting"
        /\ \A t \in 1..Len(results_history) :
              results_history[t].detection_events = <<>>
        /\ detection_events = <<>>

ResolvedInTick ==
    {e \in 1..Len(M1AfterDetection.detection_events) :
        /\ e > Len(M1AfterReformation.detection_events)
        /\ M1AfterDetection.detection_events[e].resolution_method # NoMethod}

\* the identity with the given unique_id in a sequence of identities
IdentityOf(ids, id) == ids[CHOOSE k \in 1..Len(ids) : ids[k].unique_id = id]

\* C23: resolve_detection_conflict leaves ancestry, tag and phase of the first
\* affected identity as they were; for the i-th following one it appends "_i"
\* to the ancestry (symbolic mutation), "*i" to the tag (identity rename) or
\* sets the phase to (theta + i * 0.02) mod 1 (phase separation), and changes
\* nothing else of the three; every affected identity is marked with the method.
C23_ResolutionByListOrder ==
    [][tick' = tick + 1 =>
          \A e \in ResolvedInTick :
              LET event == M1AfterDetection.detection_events[e]
                  method == config.default_conflict_resolution
              IN  \A n \in 1..Len(event.affected_identities) :
                      LET old == IdentityOf(M1AfterReformation.identities,
                                            event.affected_identities[n])
                          new == IdentityOf(M1AfterDetection.identities,
                                            event.affected_identities[n])
                          i == n - 1
                      IN  /\ new.conflict_resolution_applied = method
                          /\ new.ancestry =
                                IF method = "symbolic_mutation" /\ i >= 1
                                THEN old.ancestry \o <<"_", Digits[i]>>
                                ELSE old.ancestry
                          /\ new.module_tag =
                                IF method = "identity_rename" /\ i >= 1
                                THEN old.module_tag \o <<"*", Digits[i]>>
                                ELSE old.module_tag
                          /\ new.theta =
                                IF method = "phase_separation" /\ i >= 1
                                THEN (old.theta + i * PhaseSeparation) % PhaseScale
                                ELSE old.theta]_vars

\* three identities were resolved by one event under symbolic mutation: the
\* first keeps the ancestry, the second ends in "_1", the third in "_2"
C23_Witness ==
    /\ config.default_conflict_resolution = "symbolic_mutation"
    /\ \E e \in 1..Len(detection_events) :
          /\ Len(detection_events[e].affected_identities) = 3
          /\ detection_events[e].resolution_method = "symbolic_mutation"
          /\ IdentityOf(identities, detection_events[e].affected_identities[1]).ancestry
             = <<"A","B","C">>
          /\ IdentityOf(identities, detection_events[e].affected_identities[2]).ancestry
             = <<"A","B","C","_","1">>
          /\ IdentityOf(identities, detection_events[e].affected_identities[3]).ancestry
             = <<"A","B","C","_","2">>

\* the k-th identity has no identical companion at its position: its ancestry
\* differs from that of every other identity there, or its phase differs by at
\* least epsilon from that of every other identity there
Unmatched(ids, k) ==
    LET others == {j \in 1..Len(ids) : j # k /\ ids[j].position = ids[k].position}
    IN  \/ \A j \in others : ids[j].ancestry # ids[k].ancestry
        \/ \A j \in others : Abs(ids[j].theta - ids[k].theta) >= Epsilon

\* C27: the detection step of a tick mutates or marks only identities of an
\* unresolved identical group: an identity whose ancestry differs from that of
\* every other identity at its position, or whose phase differs by at least
\* epsilon from all of them, keeps its ancestry, tag, phase and resolution mark.
C27_OnlyIdenticalGroupIsResolved ==
    [][tick' = tick + 1 =>
          LET before == M1AfterReformation.identities
              after == M1AfterDetection.identities
          IN  \A k \in 1..Len(before) :
                  Unmatched(before, k) =>
                      /\ after[k].ancestry = before[k].ancestry
                      /\ after[k].module_tag = before[k].module_tag
                      /\ after[k].theta = before[k].theta
                      /\ after[k].conflict_resolution_applied
                         = before[k].conflict_resolution_applied]_vars

-----------------------------------------------------------------------------
(* The detection engine: calculate_ancestry_match on arbitrary ancestries *)

\* ancestries of at most MaxAncestry characters over two characters
Ancestries == UNION {[1..n -> {"A", "B"}] : n \in 0..MaxAncestry}

\* In this specification pc holds the last call of calculate_ancestry_match:
\* its arguments and the value it returned.
NoMatchCall ==
    [at |-> "idle", ancestry_identity |-> <<>>, ancestry_recruiter |-> <<>>,
     result |-> FALSE]

\* an engine of any tick, for every setting of the two ancestry switches
InitAncestry ==
    /\ tick \in 0..MaxTicks
    /\ identities = <<>>
    /\ recruiters = <<>>
    /\ echo_fields = M1Echo
    /\ config \in {[ConfigDefaults EXCEPT !.ancestry_required = r,
                                          !.smoothing_enabled = s] :
                       r \in BOOLEAN, s \in BOOLEAN}
    /\ coexistence_registry = <<>>
    /\ detection_events = <<>>
    /\ conflict_resolutions = <<>>
    /\ composite_particles = <<>>
    /\ results_history = <<>>
    /\ next_id = 1
    /\ pc = NoMatchCall

\* engine.calculate_ancestry_match(ancestry_identity, ancestry_recruiter)
CallCalculateAncestryMatch ==
    /\ pc.at = "idle"
    /\ \E ancestry_identity \in Ancestries, ancestry_recruiter \in Ancestries :
          pc' = [at |-> "returned", ancestry_identity |-> ancestry_identity,
                 ancestry_recruiter |-> ancestry_recruiter,
                 result |-> CalculateAncestryMatch(config, tick, ancestry_identity,
                                                   ancestry_recruiter)]
    /\ UNCHANGED <<tick, identities, recruiters, echo_fields, coexistence_registry,
                   detection_events, conflict_resolutions, composite_particles,
                   results_history, config, next_id>>

NextAncestry == CallCalculateAncestryMatch

SpecAncestry == InitAncestry /\ [][NextAncestry]_vars

\* position-wise differing characters plus the length difference
Mismatch(a, b) ==
    LET shorter == IF Len(a) <= Len(b) THEN Len(a) ELSE Len(b)
        longer == IF Len(a) <= Len(b) THEN Len(b) ELSE Len(a)
    IN  Cardinality({n \in 1..shorter : a[n] # b[n]}) + (longer - shorter)

\* 3 and 4 count as 2, every other value as itself
Smoothed(m) == IF m \in {3, 4} THEN 2 ELSE m

\* what the match is said to be when the ancestry is compared at all
EqualOrSmoothed ==
    IF config.smoothing_enabled /\ tick >= SmoothingTick
    THEN Smoothed(Mismatch(pc.ancestry_identity, pc.ancestry_recruiter)) <= SmoothingThreshold
    ELSE pc.ancestry_identity = pc.ancestry_recruiter

\* C26 as stated: calculate_ancestry_match is exact equality of the two
\* ancestries unless smoothing is enabled and tick >= smoothing_tick; then it
\* holds iff smooth(m) <= smoothing_threshold, m the number of position-wise
\* differing characters plus the length difference.
C26_MatchIsEqualityOrSmoothed ==
    pc.at = "returned" => (pc.result <=> EqualOrSmoothed)

\* C26 amended: with ancestry_required the match is equality or, from
\* smoothing_tick on with smoothing enabled, smooth(m) <= smoothing_threshold;
\* without ancestry_required every pair of ancestries matches.
C26_MatchWhenRequired ==
    pc.at = "returned" =>
        (pc.result <=> (~config.ancestry_required \/ EqualOrSmoothed))

\* two ancestries that differ in three places matched by smoothing
C26_Witness ==
    /\ pc.at = "returned"
    /\ config.ancestry_required
    /\ config.smoothing_enabled
    /\ tick >= SmoothingTick
    /\ Mismatch(pc.ancestry_identity, pc.ancestry_recruiter) = 3
    /\ Len(pc.ancestry_identity) # Len(pc.ancestry_recruiter)
    /\ pc.result

====
